---- MODULE Spec2Model ----
(***************************************************************************)
(* Model of starry-test-harness (src/src/main.rs): one invocation of       *)
(* `run_suite` as a sequential state machine.  The environment (manifest   *)
(* file, workspace filesystem, child processes) is nondeterministic.       *)
(*                                                                         *)
(* Modelling assumptions:                                                  *)
(*  - wall-clock values (timestamps, durations) are not modelled;          *)
(*  - console output (println!) is not modelled;                           *)
(*  - a filesystem failure is modelled for the eager creation of the run   *)
(*    directory tree (main.rs 165-175); appends to files the harness has   *)
(*    already opened, and creations below the fresh run directory, succeed. *)
(***************************************************************************)
EXTENDS Integers, Sequences, FiniteSets, TLC

-----------------------------------------------------------------------------
(* Bounds of the model *)

MaxCases == 2

MaxExitCode == 1

MaxTimeout == 11

MaxNameLen == 3

MaxStatus == 65535

MaxCalls == 3

-----------------------------------------------------------------------------
(* Characters and case names.  A name is a sequence of one-character       *)
(* strings.                                                                *)

AsciiUpper == <<"A","B","C","D","E","F","G","H","I","J","K","L","M",
                "N","O","P","Q","R","S","T","U","V","W","X","Y","Z">>

AsciiLower == <<"a","b","c","d","e","f","g","h","i","j","k","l","m",
                "n","o","p","q","r","s","t","u","v","w","x","y","z">>

AsciiDigit == <<"0","1","2","3","4","5","6","7","8","9">>

Range(s) == {s[i] : i \in DOMAIN s}

is_ascii_alphanumeric(c) ==
    c \in Range(AsciiUpper) \cup Range(AsciiLower) \cup Range(AsciiDigit)

to_ascii_lowercase(c) ==
    IF c \in Range(AsciiUpper)
    THEN AsciiLower[CHOOSE i \in DOMAIN AsciiUpper : AsciiUpper[i] = c]
    ELSE c

RECURSIVE TrimStart(_)
TrimStart(s) ==
    IF s # <<>> /\ Head(s) = "-" THEN TrimStart(Tail(s)) ELSE s

RECURSIVE TrimEnd(_)
TrimEnd(s) ==
    IF s # <<>> /\ s[Len(s)] = "-" THEN TrimEnd(SubSeq(s, 1, Len(s) - 1)) ELSE s

\* Mutant: only leading dashes are trimmed.
trim_matches_start_only(s) == TrimStart(s)

\* str::trim_matches('-')
trim_matches(s) == TrimEnd(TrimStart(s))

\* Mutant: a '.' in the name is kept.
sanitize_case_name_keeps_dots(name) ==
    trim_matches([i \in DOMAIN name |->
                    IF is_ascii_alphanumeric(name[i])
                    THEN to_ascii_lowercase(name[i])
                    ELSE IF name[i] = "." THEN "." ELSE "-"])

\* fn sanitize_case_name, lines 498-510
sanitize_case_name(name) ==
    trim_matches([i \in DOMAIN name |->
                    IF is_ascii_alphanumeric(name[i])
                    THEN to_ascii_lowercase(name[i])
                    ELSE "-"])

\* The case names a manifest lists, by position: the first two slugs differ
\* and the third name has the slug of the first; or the first two names
\* already share a slug.
NamePatterns ==
    { << <<"o","k">>, <<"b","a","d">>, <<"O","k","!">>, <<"-","9">>, <<"o","k">> >>,
      << <<"O","k","!">>, <<"o","k">>, <<"b","a","d">>, <<"-","9">>, <<"o","k">> >> }

-----------------------------------------------------------------------------
(* Data model *)

\* Option<i32>
None == [some |-> FALSE, val |-> 0]

Some(v) == [some |-> TRUE, val |-> v]

\* Vec<TestCase> of n cases (name and allow_failure of struct TestCase)
CaseLists(n) ==
    { [i \in 1..n |-> [name |-> p[i], allow_failure |-> af[i]]] :
        p \in NamePatterns, af \in [1..n -> BOOLEAN] }

\* enum CaseStatus with CaseStatus::as_str
CaseStatus == {"passed", "failed", "soft_failed"}

\* What load_manifest can find on disk: no readable file, a file that does
\* not parse, or a Manifest (whose case list defaults to empty).
Manifests ==
    { [file |-> f, build_script |-> FALSE, cases |-> <<>>] : f \in {"unreadable", "malformed"} }
    \cup
    { [file |-> "ok", build_script |-> b, cases |-> cs] :
        b \in BOOLEAN, cs \in UNION { CaseLists(n) : n \in 0..MaxCases } }

\* std::process::ExitStatus of a finished child: a normal exit with a code,
\* or termination by a signal.
ExitStatuses ==
    { [signaled |-> FALSE, code |-> c] : c \in 0..MaxExitCode }
    \cup { [signaled |-> TRUE, code |-> 0] }

\* Mutant: every normal exit counts as success, whatever the code.
success_ignores_code(st) == ~st.signaled

\* ExitStatus::success()
success(st) == ~st.signaled /\ st.code = 0

\* Mutant: a signalled child reports exit code 0.
code_signal_as_zero(st) == Some(st.code)

\* ExitStatus::code()
code(st) == IF st.signaled THEN None ELSE Some(st.code)

\* Paths below the workspace that the harness touches.
P(kind) == [kind |-> kind, slug |-> <<>>]

logs_root == P("logs_root")

run_dir == P("run_dir")

run_log_path == P("suite.log")

case_logs_root == P("cases")

artifacts_root == P("artifacts")

error_log_path == P("error.log")

summary_path == P("last_run.json")

\* case_logs_root.join(format!("{case_slug}.log"))
case_log_path(slug) == [kind |-> "case_log", slug |-> slug]

\* artifacts_root.join(&case_slug): joining an empty component names the
\* artifacts root itself.
case_artifact_dir(slug) ==
    IF slug = <<>> THEN artifacts_root ELSE [kind |-> "artifact_dir", slug |-> slug]

\* Mutant: the artifacts root is not created.
SetupDirs_without_artifacts == << logs_root, run_dir, case_logs_root >>

\* The directories run_suite creates eagerly, in the order it creates them.
SetupDirs == << logs_root, run_dir, case_logs_root, artifacts_root >>

\* What the workspace may hold under logs/<suite>/ before the invocation:
\* nothing, an earlier run, or an earlier run of the same second (same
\* timestamp, hence the same run directory) that left an error marker.
PriorFs ==
    { {},
      { logs_root, summary_path },
      { logs_root, summary_path, run_dir, case_logs_root, artifacts_root,
        run_log_path, error_log_path, case_log_path(<<"b","a","d">>),
        case_artifact_dir(<<"b","a","d">>) } }

\* Local::now().format("%Y%m%d-%H%M%S") of this invocation (line 167), and
\* of an earlier second.
timestamp == "T1"

EarlierTimestamp == "T0"

\* rel_path of a path below the run directory of the run started at ts
RunPath(ts, path) == [run |-> ts, path |-> path]

\* No summary document.
NoSummary ==
    [ present |-> FALSE, total |-> 0, passed |-> 0, failed |-> 0,
      soft_failed |-> 0, error_log |-> FALSE, cases |-> <<>>,
      log_file |-> RunPath("", run_log_path),
      case_logs_root |-> RunPath("", case_logs_root),
      artifacts_root |-> RunPath("", artifacts_root) ]

\* Summary document left by a run of an earlier second: one case, passed.
PriorSummary ==
    [ present |-> TRUE, total |-> 1, passed |-> 1, failed |-> 0,
      soft_failed |-> 0, error_log |-> FALSE,
      cases |-> << [ name |-> <<"o","k">>, status |-> "passed",
                     exit_code |-> Some(0), allow_failure |-> FALSE,
                     log_path |-> case_log_path(<<"o","k">>) ] >>,
      log_file |-> RunPath(EarlierTimestamp, run_log_path),
      case_logs_root |-> RunPath(EarlierTimestamp, case_logs_root),
      artifacts_root |-> RunPath(EarlierTimestamp, artifacts_root) ]

\* Summary document left by an earlier run of the same second: one case,
\* failed (hence the error marker in the shared run directory).
SameSecondSummary ==
    [ present |-> TRUE, total |-> 1, passed |-> 0, failed |-> 1,
      soft_failed |-> 0, error_log |-> TRUE,
      cases |-> << [ name |-> <<"b","a","d">>, status |-> "failed",
                     exit_code |-> Some(1), allow_failure |-> FALSE,
                     log_path |-> case_log_path(<<"b","a","d">>) ] >>,
      log_file |-> RunPath(timestamp, run_log_path),
      case_logs_root |-> RunPath(timestamp, case_logs_root),
      artifacts_root |-> RunPath(timestamp, artifacts_root) ]

\* The summary document that goes with what the workspace holds at the start.
InitialSummary(files) ==
    IF summary_path \notin files THEN NoSummary
    ELSE IF run_dir \in files THEN SameSecondSummary
    ELSE PriorSummary

-----------------------------------------------------------------------------
VARIABLES
    manifest,       \* what tests/<suite>/suite.toml holds
    script_present, \* script_present[i]: workspace.join(cases[i].path) exists
    build_present,  \* workspace.join(build_script(manifest)) exists
    pc,             \* position of the invocation in run_suite
    result,         \* Result returned by run_suite: "pending", "Ok", "Err"
    fatal,          \* which fatal error ended the invocation ("" if none)
    fs,             \* set of paths existing under workspace/logs/<suite>/
    created,        \* paths this invocation created or (re)wrote
    run_log,        \* lines this invocation appended to suite.log
    idx,            \* 1-based index of the case the loop is at
    passed, failed, soft_failed,
    case_details,   \* Vec<CaseDetail>
    spawned,        \* indices of the cases whose child was spawned, in order
    build_runs,     \* number of build script processes spawned
    build_exits,    \* exit statuses of the build processes that ended
    child_exits,    \* exit statuses of the case children that ended, in order
    error_marker,   \* failure count that error.log names (0 when absent)
    last_run,       \* content of logs/<suite>/last_run.json
    summary_writes, \* number of times this invocation wrote last_run.json
    \* The timeout budget of one case, from suite.toml to the child:
    toml_default_timeout, \* default_timeout_secs as suite.toml gives it
    case_timeout_secs,    \* TestCase.timeout_secs
    default_timeout_secs, \* Manifest.default_timeout_secs once deserialized
    timeout_secs,         \* the local timeout_secs of run_case
    timeout_header,       \* the timeout-budget header line of the case log
    env_timeout,          \* STARRY_CASE_TIMEOUT_SECS given to the child
    tpc,                  \* position in that computation
    \* sanitize_case_name applied to one name:
    name_in,              \* the case name
    slug_out,             \* the String it returns
    spc,                  \* "unused", "name" (not yet applied) or "slug"
    \* The case loop with what it reads and writes, case by case:
    io_suite,             \* the Suite of the invocation
    io_manifest,          \* Manifest: default_timeout_secs and cases
    io_idx,               \* 1-based index of the case the loop is at
    io_pc,                \* "unused", "Begin", "RunCase", "Running", "Done", "Aborted"
    io_files,             \* content of each file that exists below run_dir
    io_dirs,              \* directories that exist below artifacts_root
    io_envs,              \* environment given to each child spawned, in order
    io_outputs,           \* std::process::Output of each child that ended
    io_details,           \* log_path of each CaseDetail pushed
    io_touched,           \* per case begun: paths the harness created or wrote
    io_last_run,          \* the cases of the summary this run wrote, if any
    \* The wait-status macros applied to one status:
    wstatus,              \* the i32 status that waitpid stored
    decoded,              \* what each macro makes of it
    wpc,                  \* "unused", "status" (not yet decoded) or "decoded"
    \* Two invocations of the harness on one suite and one workspace:
    inv_ts,               \* inv_ts[p]: the timestamp invocation p computes
    inv_pc,               \* inv_pc[p]: position of invocation p in run_suite
    inv_failed,           \* inv_failed[p]: its `failed` counter
    inv_log_pos,          \* inv_log_pos[p]: file position of its suite.log handle
    inv_case_pos,         \* inv_case_pos[p]: file position of its case log handle
    shared_files,         \* content of the files below logs/<suite>/<timestamp>/
    shared_last_run,      \* content of logs/<suite>/last_run.json
    summary_writers,      \* the invocations that wrote last_run.json, in order
    \* A case program built from templates/ci_case.rs, run by run_case:
    run_result,           \* what run() returns
    case_display,         \* the name substituted for __CASE_DISPLAY__
    case_allow_failure,   \* allow_failure of the manifest entry
    mpc,                  \* position: in main, exited, classified
    child_stdout,         \* lines the program printed to stdout
    child_stderr,         \* lines the program printed to stderr
    child_status,         \* the ExitStatus of the program
    case_outcome,         \* the CaseOutcome run_case returns
    \* The file helpers of tests/ci/test-utils/src/lib.rs:
    hfs,                  \* the files that exist, with their bytes
    trace                 \* the helper calls made so far, with their results

timeout_vars == << toml_default_timeout, case_timeout_secs,
                  default_timeout_secs, timeout_secs, timeout_header,
                  env_timeout, tpc >>

run_vars == << manifest, script_present, build_present, pc, result, fatal, fs,
               created, run_log, idx, passed, failed, soft_failed,
               case_details, spawned, build_runs, build_exits, child_exits,
               error_marker, last_run, summary_writes >>

slug_vars == << name_in, slug_out, spc >>

io_vars == << io_suite, io_manifest, io_idx, io_pc, io_files, io_dirs,
             io_envs, io_outputs, io_details, io_touched, io_last_run >>

wait_vars == << wstatus, decoded, wpc >>

two_vars == << inv_ts, inv_pc, inv_failed, inv_log_pos, inv_case_pos,
              shared_files, shared_last_run, summary_writers >>

tmpl_vars == << run_result, case_display, case_allow_failure, mpc,
               child_stdout, child_stderr, child_status, case_outcome >>

helper_vars == << hfs, trace >>

\* What a run of a suite, modelled as a whole, leaves alone.
side_vars == << timeout_vars, slug_vars, io_vars, wait_vars, two_vars,
                tmpl_vars, helper_vars >>

vars == << run_vars, side_vars >>

\* What each computation modelled on its own leaves alone.
timeout_frame == << run_vars, slug_vars, io_vars, wait_vars,
                    two_vars, tmpl_vars, helper_vars >>

slug_frame == << run_vars, timeout_vars, io_vars, wait_vars,
                 two_vars, tmpl_vars, helper_vars >>

io_frame == << run_vars, timeout_vars, slug_vars, wait_vars,
               two_vars, tmpl_vars, helper_vars >>

wait_frame == << run_vars, timeout_vars, slug_vars, io_vars,
                 two_vars, tmpl_vars, helper_vars >>

two_frame == << run_vars, timeout_vars, slug_vars, io_vars,
                wait_vars, tmpl_vars, helper_vars >>

tmpl_frame == << run_vars, timeout_vars, slug_vars, io_vars,
                 wait_vars, two_vars, helper_vars >>

helper_frame == << run_vars, timeout_vars, slug_vars, io_vars,
                   wait_vars, two_vars, tmpl_vars >>

\* The timeout variables while the run of a suite is modelled without them.
TimeoutUnused ==
    /\ toml_default_timeout = None
    /\ case_timeout_secs = None
    /\ default_timeout_secs = 0
    /\ timeout_secs = 0
    /\ timeout_header = <<>>
    /\ env_timeout = <<>>
    /\ tpc = "unused"

\* The variables of sanitize_case_name while it is not modelled on its own.
SlugUnused ==
    /\ name_in = <<>>
    /\ slug_out = <<>>
    /\ spc = "unused"

\* The variables of the case loop while its files are not modelled.
IoUnused ==
    /\ io_suite = ""
    /\ io_manifest = [default_timeout_secs |-> 0, cases |-> <<>>]
    /\ io_idx = 1
    /\ io_pc = "unused"
    /\ io_files = <<>>
    /\ io_dirs = {}
    /\ io_envs = <<>>
    /\ io_outputs = <<>>
    /\ io_details = <<>>
    /\ io_touched = <<>>
    /\ io_last_run = None

\* The variables of the wait-status macros while they are not modelled.
WaitUnused ==
    /\ wstatus = 0
    /\ decoded = <<>>
    /\ wpc = "unused"

\* The variables of the two invocations while only one is modelled.
TwoUnused ==
    /\ inv_ts = <<>>
    /\ inv_pc = <<>>
    /\ inv_failed = <<>>
    /\ inv_log_pos = <<>>
    /\ inv_case_pos = <<>>
    /\ shared_files = <<>>
    /\ shared_last_run = <<>>
    /\ summary_writers = <<>>

\* The variables of the template case program while it is not modelled.
TmplUnused ==
    /\ run_result = <<>>
    /\ case_display = ""
    /\ case_allow_failure = FALSE
    /\ mpc = "unused"
    /\ child_stdout = <<>>
    /\ child_stderr = <<>>
    /\ child_status = <<>>
    /\ case_outcome = <<>>

\* The variables of the file helpers while they are not modelled.
HelperUnused ==
    /\ hfs = <<>>
    /\ trace = <<>>

N == Len(manifest.cases)

Line(kind, name, exit) == [kind |-> kind, name |-> name, exit |-> exit]

\* fs::create_dir_all on `dirs` (creates only what is missing) and
\* File::create / fs::write on `files` (creates or truncates).
Touch(dirs, files) ==
    /\ fs' = fs \cup dirs \cup files
    /\ created' = created \cup (dirs \ fs) \cup files

\* bail!(...) / `?` out of run_suite
Abort(why) ==
    /\ pc' = "Aborted"
    /\ result' = "Err"
    /\ fatal' = why

\* main: the process exit code Rust derives from the Result main returns.
ProcessExitCodeAlwaysZero(r) == 0

ProcessExitCode(r) == IF r = "Ok" THEN 0 ELSE 1

\* The variables of run_suite while it is not the computation modelled.
RunUnused ==
    /\ manifest = [file |-> "ok", build_script |-> FALSE, cases |-> <<>>]
    /\ script_present = <<>>
    /\ build_present = FALSE
    /\ pc = "Loading"
    /\ result = "pending"
    /\ fatal = ""
    /\ fs = {}
    /\ created = {}
    /\ run_log = <<>>
    /\ idx = 1
    /\ passed = 0 /\ failed = 0 /\ soft_failed = 0
    /\ case_details = <<>>
    /\ spawned = <<>>
    /\ build_runs = 0
    /\ build_exits = <<>>
    /\ child_exits = <<>>
    /\ error_marker = 0
    /\ last_run = NoSummary
    /\ summary_writes = 0

Init ==
    /\ TimeoutUnused
    /\ SlugUnused
    /\ IoUnused
    /\ WaitUnused
    /\ TwoUnused
    /\ TmplUnused
    /\ HelperUnused
    /\ manifest \in Manifests
    /\ script_present \in [1..Len(manifest.cases) -> BOOLEAN]
    /\ build_present \in BOOLEAN
    /\ pc = "Loading"
    /\ result = "pending"
    /\ fatal = ""
    /\ fs \in PriorFs
    /\ created = {}
    /\ run_log = <<>>
    /\ idx = 1
    /\ passed = 0 /\ failed = 0 /\ soft_failed = 0
    /\ case_details = <<>>
    /\ spawned = <<>>
    /\ build_runs = 0
    /\ build_exits = <<>>
    /\ child_exits = <<>>
    /\ error_marker = IF error_log_path \in fs THEN 1 ELSE 0
    /\ last_run = InitialSummary(fs)
    /\ summary_writes = 0

-----------------------------------------------------------------------------
(* run_suite, lines 156-163: load the manifest, reject an empty case list *)

\* Mutant: an empty case list is not rejected.
manifest_error_accepts_empty(m) ==
    IF m.file = "unreadable" THEN "manifest unreadable"
    ELSE IF m.file = "malformed" THEN "manifest malformed"
    ELSE ""

\* The fatal error of load_manifest / the emptiness check, "" when none.
manifest_error(m) ==
    IF m.file = "unreadable" THEN "manifest unreadable"
    ELSE IF m.file = "malformed" THEN "manifest malformed"
    ELSE IF m.cases = <<>> THEN "no cases"
    ELSE ""

load_manifest ==
    /\ pc = "Loading"
    /\ IF manifest_error(manifest) # ""
       THEN Abort(manifest_error(manifest))
       ELSE /\ pc' = "Setup"
            /\ UNCHANGED << result, fatal >>
    /\ UNCHANGED << side_vars, manifest, script_present, build_present,
                    fs, created, run_log, idx, passed, failed, soft_failed,
                    case_details, spawned, child_exits, build_runs,
                    build_exits, error_marker, last_run, summary_writes >>

\* Mutant: only the run directory and suite.log are created up front.
setup_run_dir_lazy ==
    /\ pc = "Setup"
    /\ Touch({logs_root, run_dir}, {run_log_path})
    /\ run_log' = << Line("suite", <<>>, None) >>
    /\ pc' = "BuildStep"
    /\ UNCHANGED << side_vars, manifest, script_present, build_present,
                    result, fatal, idx, passed, failed, soft_failed,
                    case_details, spawned, child_exits, build_runs,
                    build_exits, error_marker, last_run, summary_writes >>

(* run_suite, lines 165-201: create the run directory tree and suite.log,  *)
(* write the suite header.                                                 *)
setup_run_dir ==
    /\ pc = "Setup"
    /\ Touch(Range(SetupDirs), {run_log_path})
    /\ run_log' = << Line("suite", <<>>, None) >>
    /\ pc' = "BuildStep"
    /\ UNCHANGED << side_vars, manifest, script_present, build_present,
                    result, fatal, idx, passed, failed, soft_failed,
                    case_details, spawned, child_exits, build_runs,
                    build_exits, error_marker, last_run, summary_writes >>

(* One of the create_dir_all / File::create calls of lines 166-175 fails   *)
(* after k directories were created.                                       *)
setup_fs_failure ==
    /\ pc = "Setup"
    /\ \E k \in 0..Len(SetupDirs) :
          Touch({ SetupDirs[i] : i \in 1..k }, {})
    /\ Abort("filesystem failure")
    /\ UNCHANGED << side_vars, manifest, script_present, build_present,
                    run_log, idx, passed, failed, soft_failed, case_details,
                    spawned, child_exits, build_runs, build_exits,
                    error_marker, last_run, summary_writes >>

-----------------------------------------------------------------------------
(* The `for` loop over manifest.cases, line 210: where control goes when   *)
(* the loop is (re-)entered at 1-based position i of n cases.              *)

\* Mutant: the loop stops one case early.
loop_next_stops_early(i, n) == IF i < n THEN "Starting" ELSE "Summarizing"

loop_next(i, n) == IF i <= n THEN "Starting" ELSE "Summarizing"

-----------------------------------------------------------------------------
(* maybe_run_build, lines 454-492 *)

\* lines 460-464: the script the build step resolves, the manifest's
\* build_script or else the stub
build_script(m) ==
    IF m.build_script THEN << "build_script of the manifest" >>
    ELSE << "scripts/build_stub.sh" >>

\* Mutant: an absent build script is a fatal error.
maybe_run_build_skip_is_fatal ==
    /\ pc = "BuildStep"
    /\ ~build_present
    /\ Abort("build script missing")
    /\ UNCHANGED << side_vars, manifest, script_present, build_present,
                    fs, created, run_log, idx, passed, failed, soft_failed,
                    case_details, spawned, child_exits, build_runs,
                    build_exits, error_marker, last_run, summary_writes >>

\* lines 465-473: script missing: log the skip notice, return Ok
maybe_run_build_skip ==
    /\ pc = "BuildStep"
    /\ ~build_present
    /\ run_log' = Append(run_log, Line("build_skipped", build_script(manifest), None))
    /\ pc' = loop_next(idx, N)
    /\ UNCHANGED << side_vars, manifest, script_present, build_present,
                    result, fatal, fs, created, idx, passed, failed,
                    soft_failed, case_details, spawned, child_exits,
                    build_runs, build_exits, error_marker, last_run,
                    summary_writes >>

\* Mutant: the build script is started and not waited for.
maybe_run_build_spawn_does_not_wait ==
    /\ pc = "BuildStep"
    /\ build_present
    /\ run_log' = Append(run_log, Line("build_executing", build_script(manifest), None))
    /\ build_runs' = build_runs + 1
    /\ pc' = loop_next(idx, N)
    /\ UNCHANGED << side_vars, manifest, script_present, build_present,
                    result, fatal, fs, created, idx, passed, failed,
                    soft_failed, case_details, spawned, child_exits,
                    build_exits, error_marker, last_run, summary_writes >>

\* lines 475-486: script present: log the start notice, spawn it
maybe_run_build_spawn ==
    /\ pc = "BuildStep"
    /\ build_present
    /\ run_log' = Append(run_log, Line("build_executing", build_script(manifest), None))
    /\ build_runs' = build_runs + 1
    /\ pc' = "Building"
    /\ UNCHANGED << side_vars, manifest, script_present, build_present,
                    result, fatal, fs, created, idx, passed, failed,
                    soft_failed, case_details, spawned, child_exits,
                    build_exits, error_marker, last_run, summary_writes >>

\* Mutant: a build script that cannot be started is passed over.
maybe_run_build_spawn_error_passed_over ==
    /\ pc = "BuildStep"
    /\ build_present
    /\ run_log' = Append(run_log, Line("build_executing", build_script(manifest), None))
    /\ pc' = loop_next(idx, N)
    /\ UNCHANGED << side_vars, manifest, script_present, build_present,
                    result, fatal, fs, created, idx, passed, failed,
                    soft_failed, case_details, spawned, child_exits,
                    build_runs, build_exits, error_marker, last_run,
                    summary_writes >>

\* lines 475-486: script present but Command::output() fails to start it
maybe_run_build_spawn_error ==
    /\ pc = "BuildStep"
    /\ build_present
    /\ run_log' = Append(run_log, Line("build_executing", build_script(manifest), None))
    /\ Abort("failed to run build script")
    /\ UNCHANGED << side_vars, manifest, script_present, build_present,
                    fs, created, idx, passed, failed, soft_failed,
                    case_details, spawned, child_exits, build_runs,
                    build_exits, error_marker, last_run, summary_writes >>

\* Mutant: a build that does not succeed aborts the run.
maybe_run_build_exit_checks_status ==
    /\ pc = "Building"
    /\ \E st \in ExitStatuses :
          /\ build_exits' = Append(build_exits, st)
          /\ run_log' = Append(run_log, Line("build_output", <<>>, None))
          /\ IF success(st)
             THEN pc' = loop_next(idx, N) /\ UNCHANGED << result, fatal >>
             ELSE Abort("build failed")
    /\ UNCHANGED << side_vars, manifest, script_present, build_present,
                    fs, created, idx, passed, failed, soft_failed,
                    case_details, spawned, child_exits, build_runs,
                    error_marker, last_run, summary_writes >>

\* lines 482-491: the build process ends with any status: its output is
\* appended to the run log, the status is dropped
maybe_run_build_exit ==
    /\ pc = "Building"
    /\ \E st \in ExitStatuses :
          /\ build_exits' = Append(build_exits, st)
          /\ run_log' = Append(run_log, Line("build_output", <<>>, None))
    /\ pc' = loop_next(idx, N)
    /\ UNCHANGED << side_vars, manifest, script_present, build_present,
                    result, fatal, fs, created, idx, passed, failed,
                    soft_failed, case_details, spawned, child_exits,
                    build_runs, error_marker, last_run, summary_writes >>

-----------------------------------------------------------------------------
(* The case loop, lines 210-299, and run_case, lines 368-438 *)

\* Mutant: the artifact directory of a case is left for run_case to create.
case_start_without_artifact_dir ==
    /\ pc = "Starting"
    /\ run_log' = Append(run_log,
                      Line("case_starting", manifest.cases[idx].name, None))
    /\ pc' = "RunCase"
    /\ UNCHANGED << side_vars, manifest, script_present, build_present,
                    result, fatal, fs, created, idx, passed, failed,
                    soft_failed, case_details, spawned, child_exits,
                    build_runs, build_exits, error_marker, last_run,
                    summary_writes >>

\* lines 211-235: derive the case's paths, create its artifact directory,
\* append the start line to the run log
case_start ==
    /\ pc = "Starting"
    /\ LET case == manifest.cases[idx]
       IN  /\ Touch({case_artifact_dir(sanitize_case_name(case.name))}, {})
           /\ run_log' = Append(run_log, Line("case_starting", case.name, None))
    /\ pc' = "RunCase"
    /\ UNCHANGED << side_vars, manifest, script_present, build_present,
                    result, fatal, idx, passed, failed, soft_failed,
                    case_details, spawned, child_exits, build_runs,
                    build_exits, error_marker, last_run, summary_writes >>

\* Mutant: a missing script only skips its case; the loop goes on.
run_case_missing_skips_case ==
    /\ pc = "RunCase"
    /\ ~script_present[idx]
    /\ idx' = idx + 1
    /\ pc' = IF idx + 1 <= N THEN "Starting" ELSE "Summarizing"
    /\ UNCHANGED << side_vars, manifest, script_present, build_present,
                    result, fatal, fs, created, run_log, passed, failed,
                    soft_failed, case_details, spawned, child_exits,
                    build_runs, build_exits, error_marker, last_run,
                    summary_writes >>

\* run_case, lines 378-385: the script is missing
run_case_missing ==
    /\ pc = "RunCase"
    /\ ~script_present[idx]
    /\ Abort("missing script")
    /\ UNCHANGED << side_vars, manifest, script_present, build_present,
                    fs, created, run_log, idx, passed, failed, soft_failed,
                    case_details, spawned, child_exits, build_runs,
                    build_exits, error_marker, last_run, summary_writes >>

\* Mutant: the child is started and not waited for; the loop moves on.
run_case_spawn_does_not_wait ==
    /\ pc = "RunCase"
    /\ script_present[idx]
    /\ LET slug == sanitize_case_name(manifest.cases[idx].name)
       IN  Touch({case_artifact_dir(slug)}, {case_log_path(slug)})
    /\ spawned' = Append(spawned, idx)
    /\ idx' = idx + 1
    /\ pc' = IF idx + 1 <= N THEN "Starting" ELSE "Summarizing"
    /\ UNCHANGED << side_vars, manifest, script_present, build_present,
                    result, fatal, run_log, passed, failed, soft_failed,
                    case_details, child_exits, build_runs, build_exits,
                    error_marker, last_run, summary_writes >>

\* run_case, lines 387-417: create the case log, write its headers, spawn
run_case_spawn ==
    /\ pc = "RunCase"
    /\ script_present[idx]
    /\ LET slug == sanitize_case_name(manifest.cases[idx].name)
       IN  Touch({case_artifact_dir(slug)}, {case_log_path(slug)})
    /\ spawned' = Append(spawned, idx)
    /\ pc' = "Running"
    /\ UNCHANGED << side_vars, manifest, script_present, build_present,
                    result, fatal, run_log, idx, passed, failed, soft_failed,
                    case_details, build_runs, build_exits, error_marker,
                    last_run, summary_writes, child_exits >>

\* Mutant: a child that cannot be started is recorded as a failed case and
\* the loop goes on.
run_case_spawn_error_counts_as_failed ==
    /\ pc = "RunCase"
    /\ script_present[idx]
    /\ LET slug == sanitize_case_name(manifest.cases[idx].name)
       IN  Touch({case_artifact_dir(slug)}, {case_log_path(slug)})
    /\ failed' = failed + 1
    /\ case_details' = Append(case_details,
          [ name |-> manifest.cases[idx].name, status |-> "failed",
            exit_code |-> None,
            allow_failure |-> manifest.cases[idx].allow_failure,
            log_path |-> case_log_path(sanitize_case_name(manifest.cases[idx].name)) ])
    /\ child_exits' = Append(child_exits, [signaled |-> TRUE, code |-> 0])
    /\ spawned' = Append(spawned, idx)
    /\ idx' = idx + 1
    /\ pc' = IF idx + 1 <= N THEN "Starting" ELSE "Summarizing"
    /\ UNCHANGED << side_vars, manifest, script_present, build_present,
                    result, fatal, run_log, passed, soft_failed, build_runs,
                    build_exits, error_marker, last_run, summary_writes >>

\* run_case, lines 387-418: the script exists and the case log is created,
\* but Command::output() fails to start the child (e.g. not executable)
run_case_spawn_error ==
    /\ pc = "RunCase"
    /\ script_present[idx]
    /\ LET slug == sanitize_case_name(manifest.cases[idx].name)
       IN  Touch({case_artifact_dir(slug)}, {case_log_path(slug)})
    /\ Abort("failed to run case")
    /\ UNCHANGED << side_vars, manifest, script_present, build_present,
                    run_log, idx, passed, failed, soft_failed, case_details,
                    spawned, child_exits, build_runs, build_exits,
                    error_marker, last_run, summary_writes >>

\* Mutant: allow_failure tolerates only normal exits, not signals.
classify_signal_is_hard(st, allow_failure) ==
    IF success(st) THEN "passed"
    ELSE IF allow_failure /\ ~st.signaled THEN "soft_failed"
    ELSE "failed"

\* run_case, lines 424-430
classify(st, allow_failure) ==
    IF success(st) THEN "passed"
    ELSE IF allow_failure THEN "soft_failed"
    ELSE "failed"

\* Mutant: a soft failure is also counted as a failure.
tally_soft_counts_as_failed(counter, status) ==
    IF status = counter \/ (counter = "failed" /\ status = "soft_failed")
    THEN 1 ELSE 0

\* lines 285-289: what `match outcome.status` adds to the named counter
tally(counter, status) == IF status = counter THEN 1 ELSE 0

\* Mutant: the detail records allow_failure as false.
CaseDetail_drops_allow_failure(case, status, st) ==
    [ name          |-> case.name,
      status        |-> status,
      exit_code     |-> code(st),
      allow_failure |-> FALSE,
      log_path      |-> case_log_path(sanitize_case_name(case.name)) ]

\* lines 291-298
CaseDetail(case, status, st) ==
    [ name          |-> case.name,
      status        |-> status,
      exit_code     |-> code(st),
      allow_failure |-> case.allow_failure,
      log_path      |-> case_log_path(sanitize_case_name(case.name)) ]

\* Mutant: besides the child's own exit, a watchdog gives up on the child
\* and records the case as failed.
case_finish_or_watchdog ==
    /\ pc = "Running"
    /\ \/ \E st \in ExitStatuses :
            LET case   == manifest.cases[idx]
                status == IF success(st) THEN "passed"
                          ELSE IF case.allow_failure THEN "soft_failed"
                          ELSE "failed"
            IN  /\ run_log' = Append(run_log,
                                 Line("case_finished", case.name, code(st)))
                /\ passed' = passed + (IF status = "passed" THEN 1 ELSE 0)
                /\ failed' = failed + (IF status = "failed" THEN 1 ELSE 0)
                /\ soft_failed' = soft_failed
                                    + (IF status = "soft_failed" THEN 1 ELSE 0)
                /\ case_details' = Append(case_details,
                      [ name |-> case.name, status |-> status,
                        exit_code |-> code(st),
                        allow_failure |-> case.allow_failure,
                        log_path |-> case_log_path(sanitize_case_name(case.name)) ])
                /\ child_exits' = Append(child_exits, st)
       \/ LET case == manifest.cases[idx]
          IN  /\ run_log' = Append(run_log,
                               Line("case_finished", case.name, None))
              /\ failed' = failed + 1
              /\ case_details' = Append(case_details,
                    [ name |-> case.name, status |-> "failed",
                      exit_code |-> None,
                      allow_failure |-> case.allow_failure,
                      log_path |-> case_log_path(sanitize_case_name(case.name)) ])
              /\ UNCHANGED << passed, soft_failed, child_exits >>
    /\ idx' = idx + 1
    /\ pc' = IF idx + 1 <= N THEN "Starting" ELSE "Summarizing"
    /\ UNCHANGED << side_vars, manifest, script_present, build_present,
                    result, fatal, fs, created, spawned, build_runs,
                    build_exits, error_marker, last_run, summary_writes >>

\* Mutant: a case that failed is run once more before it is counted.
case_finish_retries_failed ==
    /\ pc = "Running"
    /\ \E st \in ExitStatuses :
         LET case   == manifest.cases[idx]
             status == classify(st, case.allow_failure)
             again  == status = "failed" /\ Len(spawned) <= N
         IN  /\ run_log' = Append(run_log,
                              Line("case_finished", case.name, code(st)))
             /\ child_exits' = Append(child_exits, st)
             /\ IF again
                THEN /\ pc' = "RunCase"
                     /\ UNCHANGED << passed, failed, soft_failed,
                                     case_details, idx >>
                ELSE /\ passed' = passed + tally("passed", status)
                     /\ failed' = failed + tally("failed", status)
                     /\ soft_failed' = soft_failed + tally("soft_failed", status)
                     /\ case_details' =
                           Append(case_details, CaseDetail(case, status, st))
                     /\ idx' = idx + 1
                     /\ pc' = loop_next(idx + 1, N)
    /\ UNCHANGED << side_vars, manifest, script_present, build_present,
                    result, fatal, fs, created, spawned, build_runs,
                    build_exits, error_marker, last_run, summary_writes >>

\* lines 419-298: the child ends with status st; classify it, append the
\* finish line, count it, push its CaseDetail, go round the loop
case_finish ==
    /\ pc = "Running"
    /\ \E st \in ExitStatuses :
         LET case   == manifest.cases[idx]
             status == classify(st, case.allow_failure)
         IN  /\ run_log' = Append(run_log,
                              Line("case_finished", case.name, code(st)))
             /\ passed' = passed + tally("passed", status)
             /\ failed' = failed + tally("failed", status)
             /\ soft_failed' = soft_failed + tally("soft_failed", status)
             /\ case_details' = Append(case_details, CaseDetail(case, status, st))
             /\ child_exits' = Append(child_exits, st)
    /\ idx' = idx + 1
    /\ pc' = loop_next(idx + 1, N)
    /\ UNCHANGED << side_vars, manifest, script_present, build_present,
                    result, fatal, fs, created, spawned, build_runs,
                    build_exits, error_marker, last_run, summary_writes >>

-----------------------------------------------------------------------------
(* After the loop, lines 301-366 *)

\* Mutant: a stale marker is left in place when nothing failed.
marker_fs_keeps_stale(files, f) ==
    IF f > 0 THEN files \cup {error_log_path} ELSE files

\* lines 304-314: the filesystem after the error marker is written
\* (failed > 0) or a stale one removed (failed == 0)
marker_fs(files, f) ==
    IF f > 0 THEN files \cup {error_log_path} ELSE files \ {error_log_path}

\* Mutant: failure is reported as soon as the marker is written.
write_error_marker_bails_early ==
    /\ pc = "Summarizing"
    /\ fs' = IF failed > 0 THEN fs \cup {error_log_path}
             ELSE fs \ {error_log_path}
    /\ created' = IF failed > 0 THEN created \cup {error_log_path} ELSE created
    /\ error_marker' = IF failed > 0 THEN failed ELSE 0
    /\ IF failed > 0
       THEN pc' = "Done" /\ result' = "Err"
       ELSE pc' = "WriteSummary" /\ UNCHANGED result
    /\ UNCHANGED << side_vars, manifest, script_present, build_present,
                    fatal, run_log, idx, passed, failed, soft_failed,
                    case_details, spawned, child_exits, build_runs,
                    build_exits, last_run, summary_writes >>

write_error_marker ==
    /\ pc = "Summarizing"
    /\ fs' = marker_fs(fs, failed)
    /\ created' = IF failed > 0 THEN created \cup {error_log_path} ELSE created
    /\ error_marker' = IF failed > 0 THEN failed ELSE 0
    /\ pc' = "WriteSummary"
    /\ UNCHANGED << side_vars, manifest, script_present, build_present,
                    result, fatal, run_log, idx, passed, failed, soft_failed,
                    case_details, spawned, child_exits, build_runs,
                    build_exits, last_run, summary_writes >>

\* Mutant: the summary's paths name the run directory of an earlier run.
RunSummary_stale_run_paths ==
    [ present     |-> TRUE,
      total       |-> Len(manifest.cases),
      passed      |-> passed,
      failed      |-> failed,
      soft_failed |-> soft_failed,
      error_log   |-> failed > 0,
      cases       |-> case_details,
      log_file       |-> RunPath(EarlierTimestamp, run_log_path),
      case_logs_root |-> RunPath(EarlierTimestamp, case_logs_root),
      artifacts_root |-> RunPath(EarlierTimestamp, artifacts_root) ]

\* lines 316-332
RunSummary ==
    [ present     |-> TRUE,
      total       |-> Len(manifest.cases),
      passed      |-> passed,
      failed      |-> failed,
      soft_failed |-> soft_failed,
      error_log   |-> failed > 0,
      cases       |-> case_details,
      log_file       |-> RunPath(timestamp, run_log_path),
      case_logs_root |-> RunPath(timestamp, case_logs_root),
      artifacts_root |-> RunPath(timestamp, artifacts_root) ]

\* Mutant: an existing last_run.json is not overwritten.
write_summary_keeps_existing ==
    /\ pc = "WriteSummary"
    /\ last_run' = IF summary_path \in fs THEN last_run ELSE RunSummary
    /\ summary_writes' = summary_writes + 1
    /\ Touch({}, {summary_path})
    /\ pc' = "Report"
    /\ UNCHANGED << side_vars, manifest, script_present, build_present,
                    result, fatal, run_log, idx, passed, failed, soft_failed,
                    case_details, spawned, child_exits, build_runs,
                    build_exits, error_marker >>

\* lines 334-335: write logs_root/last_run.json
write_summary ==
    /\ pc = "WriteSummary"
    /\ last_run' = RunSummary
    /\ summary_writes' = summary_writes + 1
    /\ Touch({}, {summary_path})
    /\ pc' = "Report"
    /\ UNCHANGED << side_vars, manifest, script_present, build_present,
                    result, fatal, run_log, idx, passed, failed, soft_failed,
                    case_details, spawned, child_exits, build_runs,
                    build_exits, error_marker >>

\* Mutant: a single failure is tolerated.
run_failed_off_by_one(f) == f > 1

\* line 357
run_failed(f) == f > 0

\* lines 357-365
report ==
    /\ pc = "Report"
    /\ result' = IF run_failed(failed) THEN "Err" ELSE "Ok"
    /\ pc' = "Done"
    /\ UNCHANGED << side_vars, manifest, script_present, build_present,
                    fatal, fs, created, run_log, idx, passed, failed,
                    soft_failed, case_details, spawned, child_exits,
                    build_runs, build_exits, error_marker, last_run,
                    summary_writes >>

Next ==
    \/ load_manifest
    \/ setup_run_dir
    \/ setup_fs_failure
    \/ maybe_run_build_skip
    \/ maybe_run_build_spawn
    \/ maybe_run_build_spawn_error
    \/ maybe_run_build_exit
    \/ case_start
    \/ run_case_missing
    \/ run_case_spawn
    \/ run_case_spawn_error
    \/ case_finish
    \/ write_error_marker
    \/ write_summary
    \/ report

Spec == Init /\ [][Next]_vars

\* The steps run_suite takes by itself, and those that wait for a process
\* it spawned to end.
HarnessStep ==
    \/ load_manifest
    \/ setup_run_dir
    \/ setup_fs_failure
    \/ maybe_run_build_skip
    \/ maybe_run_build_spawn
    \/ maybe_run_build_spawn_error
    \/ case_start
    \/ run_case_missing
    \/ run_case_spawn
    \/ run_case_spawn_error
    \/ write_error_marker
    \/ write_summary
    \/ report

\* A run that starts in a workspace without earlier logs, on a manifest of
\* the first name pattern that leaves the build script to the default:
\* where run_suite goes next never depends on more of them than this.
LiveInit ==
    /\ Init
    /\ fs = {}
    /\ ~manifest.build_script
    /\ \A i \in DOMAIN manifest.cases :
          manifest.cases[i].name = << "o", "k" >> <=> i \in { 1, 5 }

\* The run of a suite when the harness process keeps running and every
\* process it waits for in Command::output() (lines 416-418, 482-486) ends.
LiveSpec ==
    /\ LiveInit
    /\ [][Next]_vars
    /\ WF_vars(HarnessStep)
    /\ WF_vars(maybe_run_build_exit)
    /\ WF_vars(case_finish)

-----------------------------------------------------------------------------
(* The timeout budget of a case: Manifest.default_timeout_secs (lines      *)
(* 79-80, 151-153) and run_case, lines 395-396 and 413.                    *)

\* fn default_timeout
default_timeout == 600

\* The timeouts a manifest may give.
TimeoutValues == 0..MaxTimeout \cup {default_timeout, 30}

OptionalTimeouts == {None} \cup { Some(t) : t \in TimeoutValues }

\* u64::to_string / Display for u64: the decimal digits
RECURSIVE to_string(_)
to_string(n) ==
    IF n < 10 THEN << AsciiDigit[n + 1] >>
    ELSE to_string(n \div 10) \o << AsciiDigit[(n % 10) + 1] >>

\* Mutant: the case's own timeout_secs is ignored.
unwrap_or_ignores_override(opt, default) == default

\* Option::unwrap_or
unwrap_or(opt, default) == IF opt.some THEN opt.val ELSE default

TimeoutInit ==
    /\ toml_default_timeout \in OptionalTimeouts
    /\ case_timeout_secs \in OptionalTimeouts
    /\ default_timeout_secs = 0
    /\ timeout_secs = 0
    /\ timeout_header = <<>>
    /\ env_timeout = <<>>
    /\ tpc = "toml"
    /\ RunUnused
    /\ SlugUnused
    /\ IoUnused
    /\ WaitUnused
    /\ TwoUnused
    /\ TmplUnused
    /\ HelperUnused

\* lines 79-80: #[serde(default = "default_timeout")]
deserialize_default_timeout ==
    /\ tpc = "toml"
    /\ default_timeout_secs' = unwrap_or(toml_default_timeout, default_timeout)
    /\ tpc' = "manifest"
    /\ UNCHANGED << timeout_frame, toml_default_timeout, case_timeout_secs,
                    timeout_secs, timeout_header, env_timeout >>

\* run_case, lines 395-396: resolve the budget, write the header line
write_timeout_header ==
    /\ tpc = "manifest"
    /\ timeout_secs' = unwrap_or(case_timeout_secs, default_timeout_secs)
    /\ timeout_header' = << "[case] timeout budget: " >>
                            \o to_string(timeout_secs') \o << "s" >>
    /\ tpc' = "header"
    /\ UNCHANGED << timeout_frame, toml_default_timeout, case_timeout_secs,
                    default_timeout_secs, env_timeout >>

\* run_case, line 413: command.env("STARRY_CASE_TIMEOUT_SECS", ...)
export_timeout ==
    /\ tpc = "header"
    /\ env_timeout' = to_string(timeout_secs)
    /\ tpc' = "exported"
    /\ UNCHANGED << timeout_frame, toml_default_timeout, case_timeout_secs,
                    default_timeout_secs, timeout_secs, timeout_header >>

TimeoutNext ==
    \/ deserialize_default_timeout
    \/ write_timeout_header
    \/ export_timeout

TimeoutSpec == TimeoutInit /\ [][TimeoutNext]_vars

-----------------------------------------------------------------------------
(* The case loop (lines 210-299) and run_case (lines 368-438) with the     *)
(* files, directories and child environments they produce.  Every script   *)
(* exists; what a child itself writes below its artifact directory or to   *)
(* its log is the child's business and is not modelled.                    *)

\* enum Suite, by its command-line name
Suites == {"ci-test", "stress-test", "daily-test"}

\* Suite::dir_name
dir_name(suite) ==
    CASE suite = "ci-test"     -> << "ci" >>
      [] suite = "stress-test" -> << "stress" >>
      [] suite = "daily-test"  -> << "daily" >>

\* A path is the sequence of its components, a component a sequence of
\* pieces of text.  The canonicalized --workspace of line 17:
workspace == << << "/workspace" >> >>

\* Path::join of one component (an empty component adds none)
join(path, component) ==
    IF component = <<>> THEN path ELSE Append(path, component)

\* Path::parent().unwrap_or_else(|| Path::new(".")), line 404
parent(path) ==
    IF path = <<>> THEN << << "." >> >> ELSE SubSeq(path, 1, Len(path) - 1)

\* fn rel_path: path.strip_prefix(workspace).unwrap_or(path)
rel_path(path, ws) ==
    IF Len(path) >= Len(ws) /\ SubSeq(path, 1, Len(ws)) = ws
    THEN SubSeq(path, Len(ws) + 1, Len(path))
    ELSE path

\* Path::display: the components with separators between them
RECURSIVE display(_)
display(path) ==
    IF path = <<>> THEN <<>>
    ELSE IF Len(path) = 1 THEN path[1]
    ELSE display(SubSeq(path, 1, Len(path) - 1)) \o << "/" >> \o path[Len(path)]

\* The PathBuf that lines 165-174, 211-213, 302 and 334 build for each path
\* the harness touches.
PathBuf(p) ==
    LET root == join(join(workspace, << "logs" >>), dir_name(io_suite))
        run  == join(root, << timestamp >>)
    IN  CASE p.kind = "logs_root"     -> root
          [] p.kind = "run_dir"       -> run
          [] p.kind = "suite.log"     -> join(run, << "suite.log" >>)
          [] p.kind = "cases"         -> join(run, << "cases" >>)
          [] p.kind = "artifacts"     -> join(run, << "artifacts" >>)
          [] p.kind = "error.log"     -> join(run, << "error.log" >>)
          [] p.kind = "last_run.json" -> join(root, << "last_run.json" >>)
          [] p.kind = "case_log"      ->
                 join(join(run, << "cases" >>), p.slug \o << ".log" >>)
          [] p.kind = "artifact_dir"  ->
                 join(join(run, << "artifacts" >>), p.slug)

\* struct TestCase: the cases a manifest is made of here.  The first two
\* names differ and have the same slug.
TestCases ==
    { [ name |-> << "o", "k" >>, path |-> << "tests/ok.sh" >>,
        args |-> <<>>, timeout_secs |-> None, allow_failure |-> FALSE ],
      [ name |-> << "O", "k", "!" >>, path |-> << "tests/ok-loud.sh" >>,
        args |-> << "-v", "2" >>, timeout_secs |-> Some(30),
        allow_failure |-> TRUE ],
      [ name |-> << "b", "a", "d" >>, path |-> << "tests/bad.sh" >>,
        args |-> << "x" >>, timeout_secs |-> Some(0),
        allow_failure |-> FALSE ] }

\* struct Manifest: default_timeout_secs (600 when omitted) and 1..MaxCases
\* cases
IoManifests ==
    { [ default_timeout_secs |-> t, cases |-> cs ] :
        t \in {default_timeout, 5},
        cs \in UNION { [1..n -> TestCases] : n \in 1..MaxCases } }

\* std::process::Output of the i-th child: it may or may not write to its
\* stdout and to its stderr
Outputs(i) ==
    { [ stdout |-> o, stderr |-> e ] :
        o \in { <<>>, << "stdout of child " >> \o to_string(i) },
        e \in { <<>>, << "stderr of child " >> \o to_string(i) } }

\* What a log file of an earlier run of the same second holds.
StaleLog == << "[case] stale", "\n", "stale output" >>

\* args.join(" ")
RECURSIVE join_args(_)
join_args(args) ==
    IF args = <<>> THEN <<>>
    ELSE IF Len(args) = 1 THEN << args[1] >>
    ELSE << args[1], " " >> \o join_args(Tail(args))

\* writeln!(file, ...)
writeln(content, line) == content \o line \o << "\n" >>

\* Write::write_all
write_all(content, bytes) == content \o bytes

\* Mutant: an existing file is opened as it is, not truncated.
File_create_keeps_content(files, path) ==
    IF path \in DOMAIN files THEN files ELSE (path :> <<>>) @@ files

\* File::create: create the file, or truncate it when it exists
File_create(files, path) == (path :> <<>>) @@ files

\* run_case, lines 388-396: the header lines of a case log
write_headers(content, case, timeout) ==
    writeln(
      writeln(
        writeln(content, << "[case] " >> \o case.name),
        << "[case] command: " >> \o display(join(workspace, case.path))
            \o << " " >> \o join_args(case.args)),
      << "[case] timeout budget: " >> \o to_string(timeout) \o << "s" >>)

\* Mutant: the timeout is not exported to the child.
command_env_without_timeout(case, case_slug, log_path, artifact_dir, timeout) ==
    [ STARRY_WORKSPACE_ROOT    |-> workspace,
      STARRY_RUN_ID            |-> timestamp,
      STARRY_RUN_DIR           |-> PathBuf(run_dir),
      STARRY_CASE_NAME         |-> case.name,
      STARRY_CASE_SLUG         |-> case_slug,
      STARRY_CASE_LOG_PATH     |-> log_path,
      STARRY_CASE_LOG_DIR      |-> parent(log_path),
      STARRY_CASE_ARTIFACT_DIR |-> artifact_dir ]

\* run_case, lines 404-413: the variables added to the child's environment
command_env(case, case_slug, log_path, artifact_dir, timeout) ==
    [ STARRY_WORKSPACE_ROOT    |-> workspace,
      STARRY_RUN_ID            |-> timestamp,
      STARRY_RUN_DIR           |-> PathBuf(run_dir),
      STARRY_CASE_NAME         |-> case.name,
      STARRY_CASE_SLUG         |-> case_slug,
      STARRY_CASE_LOG_PATH     |-> log_path,
      STARRY_CASE_LOG_DIR      |-> parent(log_path),
      STARRY_CASE_ARTIFACT_DIR |-> artifact_dir,
      STARRY_CASE_TIMEOUT_SECS |-> to_string(timeout) ]

\* The case the loop is at, and lines 211-213 for it
io_case == io_manifest.cases[io_idx]

io_case_slug == sanitize_case_name(io_case.name)

io_case_log_path == PathBuf(case_log_path(io_case_slug))

io_case_artifact_dir == PathBuf(case_artifact_dir(io_case_slug))

IoInit ==
    /\ io_suite \in Suites
    /\ io_manifest \in IoManifests
    /\ io_idx = 1
    /\ io_pc = "Begin"
    /\ io_files \in { [p \in {} |-> <<>>],
                      (PathBuf(case_log_path(<< "o", "k" >>)) :> StaleLog) }
    /\ io_dirs = {}
    /\ io_envs = <<>>
    /\ io_outputs = <<>>
    /\ io_details = <<>>
    /\ io_touched = <<>>
    /\ io_last_run = None
    /\ RunUnused
    /\ TimeoutUnused
    /\ SlugUnused
    /\ WaitUnused
    /\ TwoUnused
    /\ TmplUnused
    /\ HelperUnused

\* Mutant: a case whose slug an earlier case already has aborts the run.
loop_case_begin_fails_on_collision ==
    /\ io_pc = "Begin"
    /\ IF \E k \in 1..(io_idx - 1) :
             sanitize_case_name(io_manifest.cases[k].name) = io_case_slug
       THEN io_pc' = "Aborted" /\ UNCHANGED << io_dirs, io_touched >>
       ELSE /\ io_dirs' = io_dirs \cup {io_case_artifact_dir}
            /\ io_touched' = Append(io_touched, {io_case_artifact_dir})
            /\ io_pc' = "RunCase"
    /\ UNCHANGED << io_frame, io_suite, io_manifest, io_idx, io_files,
                    io_envs, io_outputs, io_details, io_last_run >>

\* lines 211-235: derive the case's paths, create its artifact directory
loop_case_begin ==
    /\ io_pc = "Begin"
    /\ io_dirs' = io_dirs \cup {io_case_artifact_dir}
    /\ io_touched' = Append(io_touched, {io_case_artifact_dir})
    /\ io_pc' = "RunCase"
    /\ UNCHANGED << io_frame, io_suite, io_manifest, io_idx, io_files,
                    io_envs, io_outputs, io_details, io_last_run >>

\* run_case, lines 387-403: create or truncate the case log, write its
\* header lines, create the artifact directory (again)
open_case_log ==
    /\ io_files' = [ File_create(io_files, io_case_log_path)
                       EXCEPT ![io_case_log_path] =
                         write_headers(@, io_case,
                           unwrap_or(io_case.timeout_secs,
                                     io_manifest.default_timeout_secs)) ]
    /\ io_dirs' = io_dirs \cup {io_case_artifact_dir}
    /\ io_touched' = [ io_touched EXCEPT ![io_idx] =
                         @ \cup {io_case_log_path, io_case_artifact_dir} ]

\* run_case, lines 387-417: open the log, set the environment, spawn
run_case_io_spawn ==
    /\ io_pc = "RunCase"
    /\ open_case_log
    /\ io_envs' = Append(io_envs,
          command_env(io_case, io_case_slug, io_case_log_path,
                      io_case_artifact_dir,
                      unwrap_or(io_case.timeout_secs,
                                io_manifest.default_timeout_secs)))
    /\ io_pc' = "Running"
    /\ UNCHANGED << io_frame, io_suite, io_manifest, io_idx, io_outputs,
                    io_details, io_last_run >>

\* Mutant: a child that cannot be spawned is recorded like a case that ran,
\* when its failure is allowed, and the loop goes on.
run_case_io_spawn_error_tolerated ==
    /\ io_pc = "RunCase"
    /\ open_case_log
    /\ IF io_case.allow_failure
       THEN /\ io_details' = Append(io_details,
                  [ name |-> io_case.name,
                    log_path |-> rel_path(io_case_log_path, workspace) ])
            /\ io_idx' = io_idx + 1
            /\ io_pc' = IF io_idx + 1 <= Len(io_manifest.cases)
                        THEN "Begin" ELSE "Done"
       ELSE /\ io_pc' = "Aborted"
            /\ UNCHANGED << io_idx, io_details >>
    /\ UNCHANGED << io_frame, io_suite, io_manifest, io_envs, io_outputs,
                    io_last_run >>

\* run_case, lines 387-418: the log is opened, Command::output() fails
run_case_io_spawn_error ==
    /\ io_pc = "RunCase"
    /\ open_case_log
    /\ io_pc' = "Aborted"
    /\ UNCHANGED << io_frame, io_suite, io_manifest, io_idx, io_envs,
                    io_outputs, io_details, io_last_run >>

\* run_case, lines 416-437, and lines 291-298: the child ends; its stdout,
\* then its stderr, go to the case log; the CaseDetail is pushed
run_case_io_exit ==
    /\ io_pc = "Running"
    /\ \E out \in Outputs(io_idx) :
          /\ io_files' = [ io_files EXCEPT ![io_case_log_path] =
                             write_all(write_all(@, out.stdout), out.stderr) ]
          /\ io_outputs' = Append(io_outputs, out)
    /\ io_details' = Append(io_details,
          [ name |-> io_case.name,
            log_path |-> rel_path(io_case_log_path, workspace) ])
    /\ io_idx' = io_idx + 1
    /\ io_pc' = IF io_idx + 1 <= Len(io_manifest.cases) THEN "Begin" ELSE "Done"
    /\ UNCHANGED << io_frame, io_suite, io_manifest, io_dirs, io_envs,
                    io_touched, io_last_run >>

\* lines 316-335: after the loop the summary, with the details of the
\* cases, is written to last_run.json
io_write_summary ==
    /\ io_pc = "Done"
    /\ io_last_run' = Some(io_details)
    /\ io_pc' = "Summarized"
    /\ UNCHANGED << io_frame, io_suite, io_manifest, io_idx, io_files,
                    io_dirs, io_envs, io_outputs, io_details, io_touched >>

IoNext ==
    \/ loop_case_begin
    \/ run_case_io_spawn
    \/ run_case_io_spawn_error
    \/ run_case_io_exit
    \/ io_write_summary

IoSpec == IoInit /\ [][IoNext]_vars

-----------------------------------------------------------------------------
(* sanitize_case_name (lines 498-510) applied to one case name *)

\* The characters a case name is made of here: ASCII letters of both cases,
\* an ASCII digit, the dash, other ASCII punctuation, and (written by code
\* point) the non-ASCII letter U+00E9 and the non-ASCII digit U+0663.
NameAlphabet == {"a", "B", "7", "-", ".", "/", "U+00E9", "U+0663"}

RECURSIVE NamesOfLen(_)
NamesOfLen(n) ==
    IF n = 0 THEN { <<>> }
    ELSE { Append(s, c) : s \in NamesOfLen(n - 1), c \in NameAlphabet }

\* &str values of at most MaxNameLen characters
CaseNames == UNION { NamesOfLen(n) : n \in 0..MaxNameLen }

SlugInit ==
    /\ name_in \in CaseNames
    /\ slug_out = <<>>
    /\ spc = "name"
    /\ RunUnused
    /\ TimeoutUnused
    /\ IoUnused
    /\ WaitUnused
    /\ TwoUnused
    /\ TmplUnused
    /\ HelperUnused

\* let case_slug = sanitize_case_name(&case.name), line 211
call_sanitize_case_name ==
    /\ spc = "name"
    /\ slug_out' = sanitize_case_name(name_in)
    /\ spc' = "slug"
    /\ UNCHANGED << slug_frame, name_in >>

SlugNext == call_sanitize_case_name

SlugSpec == SlugInit /\ [][SlugNext]_vars

-----------------------------------------------------------------------------
(* The wait-status macros of tests/ci/test-utils/src/macros.rs, applied to *)
(* the i32 status of waitpid.                                              *)

\* i32 & i32 on two's complement integers: x % 2 is the lowest bit of x,
\* x \div 2 (rounding down) the other bits, and -1 has every bit set
RECURSIVE BitAnd(_, _)
BitAnd(x, y) ==
    IF x = 0 \/ y = 0 THEN 0
    ELSE IF x = -1 THEN y
    ELSE IF y = -1 THEN x
    ELSE (x % 2) * (y % 2) + 2 * BitAnd(x \div 2, y \div 2)

\* 2^n
RECURSIVE Pow2(_)
Pow2(n) == IF n = 0 THEN 1 ELSE 2 * Pow2(n - 1)

\* x >> n on a signed integer: the arithmetic shift
Shr(x, n) == x \div Pow2(n)

\* x as i8: the low eight bits, as a signed byte
as_i8(x) == LET b == x % 256 IN IF b >= 128 THEN b - 256 ELSE b

\* wifexited!: ($status & 0x7f) == 0
wifexited(st) == BitAnd(st, 127) = 0

\* wexitstatus!: ($status >> 8) & 0xff
wexitstatus(st) == BitAnd(Shr(st, 8), 255)

\* Mutant: any non-zero low seven bits count as a terminating signal.
wifsignaled_any_low_bits(st) == BitAnd(st, 127) # 0

\* wifsignaled!: ((($status & 0x7f) + 1) as i8 >> 1) > 0
wifsignaled(st) == Shr(as_i8(BitAnd(st, 127) + 1), 1) > 0

\* Mutant: the core-dump bit is taken as part of the signal number.
wtermsig_with_core_bit(st) == BitAnd(st, 255)

\* wtermsig!: $status & 0x7f
wtermsig(st) == BitAnd(st, 127)

\* wifstopped!: ($status & 0xff) == 0x7f
wifstopped(st) == BitAnd(st, 255) = 127

\* wstopsig!: ($status >> 8) & 0xff
wstopsig(st) == BitAnd(Shr(st, 8), 255)

\* wifcontinued!: $status == 0xffff
wifcontinued(st) == st = 65535

\* wcoredump!: ($status & 0x80) != 0
wcoredump(st) == BitAnd(st, 128) # 0

\* The i32 values waitpid may store here: every value of 0..MaxStatus and,
\* for some of them, the values that differ in the upper sixteen bits only.
StatusValues ==
    0..MaxStatus
    \cup { hi * 65536 + lo :
             hi \in {1, -32768, -1},
             lo \in {0, 1, 9, 126, 127, 128, 137, 255, 256, 4991, 10752,
                     32767, 65407, 65535} }

WaitInit ==
    /\ wstatus \in StatusValues
    /\ decoded = <<>>
    /\ wpc = "status"
    /\ RunUnused
    /\ TimeoutUnused
    /\ SlugUnused
    /\ IoUnused
    /\ TwoUnused
    /\ TmplUnused
    /\ HelperUnused

\* Every macro applied to the status, as the tests do after waitpid.
decode_status ==
    /\ wpc = "status"
    /\ decoded' = [ wifexited    |-> wifexited(wstatus),
                    wexitstatus  |-> wexitstatus(wstatus),
                    wifsignaled  |-> wifsignaled(wstatus),
                    wtermsig     |-> wtermsig(wstatus),
                    wifstopped   |-> wifstopped(wstatus),
                    wstopsig     |-> wstopsig(wstatus),
                    wifcontinued |-> wifcontinued(wstatus),
                    wcoredump    |-> wcoredump(wstatus) ]
    /\ wpc' = "decoded"
    /\ UNCHANGED << wait_frame, wstatus >>

WaitNext == decode_status

WaitSpec == WaitInit /\ [][WaitNext]_vars

(***************************************************************************)
(* Two invocations of run_suite on the same suite and workspace.  Each is  *)
(* its own process; nothing in run_suite takes a lock, so their file       *)
(* operations interleave freely.  The manifest both read has one case.     *)
(* A file is a sequence of cells, one per write; each open handle has its  *)
(* own position, and File::create opens without O_APPEND.                  *)
(***************************************************************************)
Invocations == {1, 2}

\* Local::now().format("%Y%m%d-%H%M%S") of a later second (line 167).
LaterTimestamp == "T2"

Seconds == { timestamp, LaterTimestamp }

\* The one case of the manifest both invocations load.
TwoRunCase == [ name |-> << "o", "k" >>, allow_failure |-> FALSE ]

\* A range of a file that no write has filled.
Hole == [ by |-> 0, text |-> "hole" ]

Cell(p, text) == [ by |-> p, text |-> text ]

\* write(2) through a handle at position pos of a file holding content:
\* the file is extended with a hole up to pos when it is shorter, the cell
\* at pos is replaced or appended.
write_at(content, pos, cell) ==
    LET padded == IF Len(content) < pos
                  THEN content \o [ i \in 1..(pos - Len(content)) |-> Hole ]
                  ELSE content
    IN  IF pos < Len(padded)
        THEN [ padded EXCEPT ![pos + 1] = cell ]
        ELSE Append(padded, cell)

\* File::create / fs::write open with O_CREAT | O_TRUNC: an existing file
\* is emptied, whoever wrote it.
truncate(files, path) == (path :> <<>>) @@ files

\* fs::remove_file
remove_file(files, path) == [ q \in DOMAIN files \ {path} |-> files[q] ]

inv_run_log(p) == RunPath(inv_ts[p], run_log_path)

inv_case_log(p) ==
    RunPath(inv_ts[p], case_log_path(sanitize_case_name(TwoRunCase.name)))

inv_error_log(p) == RunPath(inv_ts[p], error_log_path)

TwoInit ==
    /\ inv_ts = [ p \in Invocations |-> "" ]
    /\ inv_pc = [ p \in Invocations |-> "Setup" ]
    /\ inv_failed = [ p \in Invocations |-> 0 ]
    /\ inv_log_pos = [ p \in Invocations |-> 0 ]
    /\ inv_case_pos = [ p \in Invocations |-> 0 ]
    /\ shared_files = <<>>
    /\ shared_last_run = [ present |-> FALSE, by |-> 0, run |-> "", failed |-> 0 ]
    /\ summary_writers = <<>>
    /\ RunUnused
    /\ TimeoutUnused
    /\ SlugUnused
    /\ IoUnused
    /\ WaitUnused
    /\ TmplUnused
    /\ HelperUnused

\* Mutant: an invocation waits while another one is at work below the logs
\* directory of the suite.
two_setup_takes_lock(p) ==
    /\ inv_pc[p] = "Setup"
    /\ \A q \in Invocations \ {p} : inv_pc[q] \in { "Setup", "Done" }
    /\ \E ts \in Seconds :
          /\ inv_ts' = [ inv_ts EXCEPT ![p] = ts ]
          /\ shared_files' = truncate(shared_files, RunPath(ts, run_log_path))
    /\ inv_log_pos' = [ inv_log_pos EXCEPT ![p] = 0 ]
    /\ inv_pc' = [ inv_pc EXCEPT ![p] = "Header" ]
    /\ UNCHANGED << two_frame, inv_failed, inv_case_pos, shared_last_run,
                    summary_writers >>

\* Lines 165-175: the timestamp of the current second names the run
\* directory; create_dir_all accepts directories that exist; File::create
\* empties suite.log.
two_setup(p) ==
    /\ inv_pc[p] = "Setup"
    /\ \E ts \in Seconds :
          /\ inv_ts' = [ inv_ts EXCEPT ![p] = ts ]
          /\ shared_files' = truncate(shared_files, RunPath(ts, run_log_path))
    /\ inv_log_pos' = [ inv_log_pos EXCEPT ![p] = 0 ]
    /\ inv_pc' = [ inv_pc EXCEPT ![p] = "Header" ]
    /\ UNCHANGED << two_frame, inv_failed, inv_case_pos, shared_last_run,
                    summary_writers >>

\* writeln!(run_log, ...) of invocation p, which then moves on to `next`.
two_log_line(p, text, next) ==
    /\ shared_files' =
          [ shared_files EXCEPT ![inv_run_log(p)] =
                write_at(@, inv_log_pos[p], Cell(p, text)) ]
    /\ inv_log_pos' = [ inv_log_pos EXCEPT ![p] = @ + 1 ]
    /\ inv_pc' = [ inv_pc EXCEPT ![p] = next ]

\* Line 191: the suite header.
two_suite_header(p) ==
    /\ inv_pc[p] = "Header"
    /\ two_log_line(p, "[suite]", "Build")
    /\ UNCHANGED << two_frame, inv_ts, inv_failed, inv_case_pos,
                    shared_last_run, summary_writers >>

\* maybe_run_build (lines 454-492) writes its [build] line.
two_build_line(p) ==
    /\ inv_pc[p] = "Build"
    /\ two_log_line(p, "[build]", "CaseStart")
    /\ UNCHANGED << two_frame, inv_ts, inv_failed, inv_case_pos,
                    shared_last_run, summary_writers >>

\* Lines 227-232: the start line of the case.
two_case_start(p) ==
    /\ inv_pc[p] = "CaseStart"
    /\ two_log_line(p, "[case] start", "OpenLog")
    /\ UNCHANGED << two_frame, inv_ts, inv_failed, inv_case_pos,
                    shared_last_run, summary_writers >>

\* run_case, lines 387-396: File::create of the case log, then its header
\* lines.
two_open_case_log(p) ==
    /\ inv_pc[p] = "OpenLog"
    /\ shared_files' = (inv_case_log(p) :> << Cell(p, "[case] headers") >>)
                          @@ shared_files
    /\ inv_case_pos' = [ inv_case_pos EXCEPT ![p] = 1 ]
    /\ inv_pc' = [ inv_pc EXCEPT ![p] = "Running" ]
    /\ UNCHANGED << two_frame, inv_ts, inv_failed, inv_log_pos,
                    shared_last_run, summary_writers >>

\* run_case, lines 416-430: the child finishes, its output goes to the case
\* log; lines 285-289: the tally.
two_child_exit(p) ==
    /\ inv_pc[p] = "Running"
    /\ \E st \in ExitStatuses :
          inv_failed' = [ inv_failed EXCEPT ![p] =
                            IF success(st) \/ TwoRunCase.allow_failure
                            THEN @ ELSE @ + 1 ]
    /\ shared_files' =
          [ shared_files EXCEPT ![inv_case_log(p)] =
                write_at(@, inv_case_pos[p], Cell(p, "output")) ]
    /\ inv_case_pos' = [ inv_case_pos EXCEPT ![p] = @ + 1 ]
    /\ inv_pc' = [ inv_pc EXCEPT ![p] = "FinishLine" ]
    /\ UNCHANGED << two_frame, inv_ts, inv_log_pos, shared_last_run,
                    summary_writers >>

\* Lines 249-253: the finish line of the case.
two_case_finish(p) ==
    /\ inv_pc[p] = "FinishLine"
    /\ two_log_line(p, "[case] finish", "Marker")
    /\ UNCHANGED << two_frame, inv_ts, inv_failed, inv_case_pos,
                    shared_last_run, summary_writers >>

\* Lines 302-314: error.log is written when a case failed, and removed
\* when none did and the file exists.
two_error_marker(p) ==
    /\ inv_pc[p] = "Marker"
    /\ shared_files' =
          IF inv_failed[p] > 0
          THEN (inv_error_log(p) :> << Cell(p, "cases failed") >>)
                   @@ shared_files
          ELSE IF inv_error_log(p) \in DOMAIN shared_files
               THEN remove_file(shared_files, inv_error_log(p))
               ELSE shared_files
    /\ inv_pc' = [ inv_pc EXCEPT ![p] = "Summary" ]
    /\ UNCHANGED << two_frame, inv_ts, inv_failed, inv_log_pos, inv_case_pos,
                    shared_last_run, summary_writers >>

\* Lines 316-335: fs::write of logs/<suite>/last_run.json.
two_write_summary(p) ==
    /\ inv_pc[p] = "Summary"
    /\ shared_last_run' = [ present |-> TRUE, by |-> p, run |-> inv_ts[p],
                            failed |-> inv_failed[p] ]
    /\ summary_writers' = Append(summary_writers, p)
    /\ inv_pc' = [ inv_pc EXCEPT ![p] = "Done" ]
    /\ UNCHANGED << two_frame, inv_ts, inv_failed, inv_log_pos, inv_case_pos,
                    shared_files >>

\* The steps of invocation p.
two_step(p) ==
    \/ two_setup(p)
    \/ two_suite_header(p)
    \/ two_build_line(p)
    \/ two_case_start(p)
    \/ two_open_case_log(p)
    \/ two_child_exit(p)
    \/ two_case_finish(p)
    \/ two_error_marker(p)
    \/ two_write_summary(p)

TwoNext ==
    \/ \E p \in Invocations : two_setup(p)
    \/ \E p \in Invocations : two_suite_header(p)
    \/ \E p \in Invocations : two_build_line(p)
    \/ \E p \in Invocations : two_case_start(p)
    \/ \E p \in Invocations : two_open_case_log(p)
    \/ \E p \in Invocations : two_child_exit(p)
    \/ \E p \in Invocations : two_case_finish(p)
    \/ \E p \in Invocations : two_error_marker(p)
    \/ \E p \in Invocations : two_write_summary(p)

TwoRunsSpec == TwoInit /\ [][TwoNext]_vars

(***************************************************************************)
(* A case program built from templates/ci_case.rs, run as the child of     *)
(* run_case.  run() is the part the author of a case fills in; what it     *)
(* returns is an input here.                                               *)
(***************************************************************************)

\* Result<(), String>
run_Ok == [ ok |-> TRUE, err |-> "" ]

run_Err(e) == [ ok |-> FALSE, err |-> e ]

\* Failure reasons a run() may give.
ErrMessages ==
    { "", "boom", "PASS: process-spawn", "exit 0", "mismatch", "timeout" }

RunResults == { run_Ok } \cup { run_Err(e) : e \in ErrMessages }

\* Names substituted for __CASE_DISPLAY__.
CaseDisplays == { "process-spawn", "file-io", "" }

TmplInit ==
    /\ run_result \in RunResults
    /\ case_display \in CaseDisplays
    /\ case_allow_failure \in BOOLEAN
    /\ mpc = "main"
    /\ child_stdout = <<>>
    /\ child_stderr = <<>>
    /\ child_status = <<>>
    /\ case_outcome = <<>>
    /\ RunUnused
    /\ TimeoutUnused
    /\ SlugUnused
    /\ IoUnused
    /\ WaitUnused
    /\ TwoUnused
    /\ HelperUnused

\* Mutant: the failure branch prints its line and falls through instead of
\* calling std::process::exit(1).
main_fail_falls_through ==
    /\ mpc = "main"
    /\ ~run_result.ok
    /\ child_stderr' = << << "FAIL: ", case_display, " -> ", run_result.err >> >>
    /\ child_stdout' = << << "PASS: ", case_display >> >>
    /\ child_status' = [ signaled |-> FALSE, code |-> 0 ]
    /\ mpc' = "exited"
    /\ UNCHANGED << tmpl_frame, run_result, case_display, case_allow_failure,
                    case_outcome >>

\* ci_case.rs lines 10-13: run() returned Err: the FAIL line goes to
\* stderr and the process exits with code 1.
main_fail ==
    /\ mpc = "main"
    /\ ~run_result.ok
    /\ child_stderr' = << << "FAIL: ", case_display, " -> ", run_result.err >> >>
    /\ child_status' = [ signaled |-> FALSE, code |-> 1 ]
    /\ mpc' = "exited"
    /\ UNCHANGED << tmpl_frame, run_result, case_display, case_allow_failure,
                    child_stdout, case_outcome >>

\* ci_case.rs lines 14-15: run() returned Ok: the PASS line goes to stdout
\* and main returns, which is exit code 0.
main_pass ==
    /\ mpc = "main"
    /\ run_result.ok
    /\ child_stdout' = << << "PASS: ", case_display >> >>
    /\ child_status' = [ signaled |-> FALSE, code |-> 0 ]
    /\ mpc' = "exited"
    /\ UNCHANGED << tmpl_frame, run_result, case_display, case_allow_failure,
                    child_stderr, case_outcome >>

\* run_case, lines 416-437: the status of the exited child is classified and
\* its exit code recorded.
run_case_classify ==
    /\ mpc = "exited"
    /\ case_outcome' = [ status    |-> classify(child_status, case_allow_failure),
                         exit_code |-> code(child_status) ]
    /\ mpc' = "classified"
    /\ UNCHANGED << tmpl_frame, run_result, case_display, case_allow_failure,
                    child_stdout, child_stderr, child_status >>

TmplNext ==
    \/ main_fail
    \/ main_pass
    \/ run_case_classify

TmplSpec == TmplInit /\ [][TmplNext]_vars

(***************************************************************************)
(* The file helpers of tests/ci/test-utils/src/lib.rs, called by a case    *)
(* program on paths in the temporary directory (where temp_file puts       *)
(* them).  The calls succeed whenever the operating system lets them: the  *)
(* directory exists and is writable.                                       *)
(***************************************************************************)
HelperPaths == { "/tmp/case-a", "/tmp/case-b" }

\* &[u8] arguments
ByteStrings == { <<>>, << 0 >>, << 255 >>, << 0, 255 >> }

\* What the temporary directory holds before the first call.
HelperFiles == { <<>>, ("/tmp/case-a" :> << 7 >>) }

\* Mutant: the bytes are put after the content the file has.
fs_write_keeps_content(files, path, data) ==
    IF path \in DOMAIN files
    THEN [ files EXCEPT ![path] = @ \o data ]
    ELSE (path :> data) @@ files

\* fs::write: the file is created or emptied, then holds the bytes.
fs_write(files, path, data) == (path :> data) @@ files

\* OpenOptions::new().append(true).create(true), write_all: the file is
\* created when missing; the bytes go after its content.
fs_append(files, path, data) ==
    IF path \in DOMAIN files
    THEN [ files EXCEPT ![path] = @ \o data ]
    ELSE (path :> data) @@ files

\* One helper call and what it returned.
Call(op, path, data, ok, value) ==
    [ op |-> op, path |-> path, data |-> data, ok |-> ok, value |-> value ]

HelperInit ==
    /\ hfs \in HelperFiles
    /\ trace = <<>>
    /\ RunUnused
    /\ TimeoutUnused
    /\ SlugUnused
    /\ IoUnused
    /\ WaitUnused
    /\ TwoUnused
    /\ TmplUnused

\* lib.rs lines 29-32
write_bytes ==
    /\ Len(trace) < MaxCalls
    /\ \E path \in HelperPaths, data \in ByteStrings :
          /\ hfs' = fs_write(hfs, path, data)
          /\ trace' = Append(trace, Call("write_bytes", path, data, TRUE, <<>>))
    /\ UNCHANGED helper_frame

\* lib.rs lines 34-45
append_bytes ==
    /\ Len(trace) < MaxCalls
    /\ \E path \in HelperPaths, data \in ByteStrings :
          /\ hfs' = fs_append(hfs, path, data)
          /\ trace' = Append(trace, Call("append_bytes", path, data, TRUE, <<>>))
    /\ UNCHANGED helper_frame

\* lib.rs lines 47-57: opening a missing file is an error.
read_bytes ==
    /\ Len(trace) < MaxCalls
    /\ \E path \in HelperPaths :
          trace' = Append(trace,
                      IF path \in DOMAIN hfs
                      THEN Call("read_bytes", path, <<>>, TRUE, hfs[path])
                      ELSE Call("read_bytes", path, <<>>, FALSE, <<>>))
    /\ UNCHANGED << helper_frame, hfs >>

\* lib.rs lines 59-69: NotFound from remove_file is turned into Ok.
cleanup_file ==
    /\ Len(trace) < MaxCalls
    /\ \E path \in HelperPaths :
          /\ hfs' = IF path \in DOMAIN hfs THEN remove_file(hfs, path) ELSE hfs
          /\ trace' = Append(trace, Call("cleanup_file", path, <<>>, TRUE, <<>>))
    /\ UNCHANGED helper_frame

HelperNext ==
    \/ write_bytes
    \/ append_bytes
    \/ read_bytes
    \/ cleanup_file

HelperSpec == HelperInit /\ [][HelperNext]_vars

-----------------------------------------------------------------------------
(* Properties *)

Terminated == pc \in {"Done", "Aborted"}

ManifestErrors == {"manifest unreadable", "manifest malformed", "no cases"}

CountStatus(details, status) ==
    Cardinality({ i \in DOMAIN details : details[i].status = status })

CaseStartLines ==
    Cardinality({ i \in DOMAIN run_log : run_log[i].kind = "case_starting" })

\* C1: a run that reaches the summary write has N >= 1 cases, exactly N
\* CaseDetail entries, the i-th carrying the name and allow_failure of the
\* i-th manifest case, and the summary's total is N.
C1_OneDetailPerCaseInOrder ==
    summary_writes > 0 =>
        /\ N >= 1
        /\ last_run.total = N
        /\ Len(last_run.cases) = N
        /\ \A i \in 1..N :
              /\ last_run.cases[i].name = manifest.cases[i].name
              /\ last_run.cases[i].allow_failure = manifest.cases[i].allow_failure

C1_Witness ==
    /\ summary_writes > 0
    /\ N = 2
    /\ manifest.cases[1].name # manifest.cases[2].name
    /\ manifest.cases[1].allow_failure
    /\ ~manifest.cases[2].allow_failure
    /\ last_run.cases[1].status # last_run.cases[2].status

\* C2: the three counters always account for exactly the cases folded so
\* far, each case in exactly one counter, and in every summary written they
\* sum to total, the manifest's case count.
C2_CountersSumToTotal ==
    /\ passed = CountStatus(case_details, "passed")
    /\ failed = CountStatus(case_details, "failed")
    /\ soft_failed = CountStatus(case_details, "soft_failed")
    /\ passed + failed + soft_failed = Len(case_details)
    /\ summary_writes > 0 =>
          /\ last_run.passed + last_run.failed + last_run.soft_failed = last_run.total
          /\ last_run.total = N
          /\ last_run.passed = passed
          /\ last_run.failed = failed
          /\ last_run.soft_failed = soft_failed

C2_Witness ==
    /\ summary_writes > 0
    /\ last_run.total = 2
    /\ last_run.soft_failed = 1
    /\ last_run.failed = 1

\* C3: every recorded case is Passed when its child exited with code 0,
\* whatever allow_failure is; otherwise SoftFailed when allow_failure is set
\* and Failed when it is not; there is no other status.
C3_Classification ==
    \A i \in DOMAIN case_details :
        LET d == case_details[i]
        IN  /\ d.status \in CaseStatus
            /\ d.status = IF d.exit_code = Some(0) THEN "passed"
                          ELSE IF d.allow_failure THEN "soft_failed"
                          ELSE "failed"

C3_Witness ==
    /\ Len(case_details) = 2
    /\ case_details[1].status = "passed" /\ case_details[1].allow_failure
    /\ case_details[2].status = "soft_failed" /\ case_details[2].exit_code = None

\* C4 as stated: at the end of every invocation the exit status is
\* non-zero iff failed > 0.
C4_Original ==
    Terminated => (ProcessExitCode(result) # 0 <=> failed > 0)

\* C4 amended: at the end of every invocation that completes the run (no
\* fatal error) the exit status is non-zero iff failed > 0, so soft failures
\* alone give exit 0.
C4_ExitStatusOfCompletedRun ==
    pc = "Done" => (ProcessExitCode(result) # 0 <=> failed > 0)

C4_Witness ==
    /\ pc = "Done"
    /\ last_run.total = 2 /\ passed = 1 /\ soft_failed = 1 /\ failed = 0
    /\ ProcessExitCode(result) = 0

C6_ManifestErrorLeavesNoTrace ==
    (manifest.file # "ok" \/ manifest.cases = <<>>) =>
        /\ pc \in {"Loading", "Aborted"}
        /\ pc = "Aborted" => result = "Err" /\ fatal \in ManifestErrors
        /\ created = {}
        /\ run_log = <<>>
        /\ spawned = <<>>
        /\ build_runs = 0

C6_Witness ==
    /\ pc = "Aborted"
    /\ manifest.file = "ok"
    /\ manifest.cases = <<>>
    /\ fatal = "no cases"

\* C7 as stated: whenever a run ends Aborted, no directories have been
\* created by that invocation.
C7_Original ==
    pc = "Aborted" => created = {}

\* C7 amended: a run Aborted by a manifest error has created no directory;
\* a run Aborted by a missing case executable ends with the run directory
\* tree and that case's artifact directory in place.
C7_AbortedDirectories ==
    pc = "Aborted" =>
        /\ fatal \in ManifestErrors => created = {}
        /\ fatal = "missing script" =>
              /\ {logs_root, run_dir, case_logs_root, artifacts_root} \subseteq fs
              /\ case_artifact_dir(sanitize_case_name(manifest.cases[idx].name)) \in fs
              /\ run_log_path \in created

C7_Witness ==
    /\ pc = "Aborted"
    /\ fatal = "missing script"
    /\ {logs_root, run_dir, case_logs_root, artifacts_root} \subseteq created

\* C8: a fatal error makes the process exit non-zero without this
\* invocation writing last_run.json; the process exits 0 exactly when the
\* run completes with every case Passed or SoftFailed.
C8_FatalExitsNonZeroWithoutSummary ==
    /\ pc = "Aborted" =>
          /\ fatal # ""
          /\ ProcessExitCode(result) # 0
          /\ summary_writes = 0
          /\ summary_path \notin created
    /\ Terminated =>
          ( ProcessExitCode(result) = 0 <=>
              /\ pc = "Done"
              /\ Len(case_details) = N
              /\ \A i \in DOMAIN case_details :
                    case_details[i].status \in {"passed", "soft_failed"} )

C8_Witness ==
    /\ pc = "Aborted"
    /\ fatal = "missing script"
    /\ Len(case_details) = 1
    /\ ProcessExitCode(result) = 1

\* C9: when the k-th case's script is missing, the k-th child is never
\* spawned, no case after k is started or spawned, the run never reaches
\* the summary, and last_run.json never holds the outcomes of cases 1..k-1.
C9_MissingScriptAbortsRun ==
    /\ \A k \in 1..N :
          ~script_present[k] =>
              /\ idx <= k
              /\ \A j \in Range(spawned) : j < k
              /\ CaseStartLines <= k
              /\ pc \notin {"Running", "Summarizing", "WriteSummary", "Report", "Done"}
                    \/ idx < k
              /\ summary_writes = 0
              /\ last_run \in {NoSummary, PriorSummary, SameSecondSummary}
    /\ fatal = "missing script" =>
          /\ pc = "Aborted"
          /\ ~script_present[idx]
          /\ Len(case_details) = idx - 1

C9_Witness ==
    /\ pc = "Aborted"
    /\ fatal = "missing script"
    /\ idx = 2
    /\ spawned = << 1 >>
    /\ case_details[1].status = "failed"

CaseFinishLines ==
    Cardinality({ i \in DOMAIN run_log : run_log[i].kind = "case_finished" })

\* C11: cases are spawned in manifest order, each at most once; at most one
\* case child is running at any time, and case i+1 is spawned only after
\* the outcome of case i has been recorded.
C11_SequentialInManifestOrder ==
    /\ spawned = [i \in 1..Len(spawned) |-> i]
    /\ Len(spawned) <= N
    /\ Len(child_exits) = Len(case_details)
    /\ Len(spawned) - Len(child_exits) \in {0, 1}
    /\ Len(spawned) - Len(child_exits) = 1 <=> pc = "Running"
    /\ pc = "Running" => idx = Len(spawned)
    /\ pc = "Building" => spawned = <<>>

C11_Witness ==
    /\ pc = "Running"
    /\ spawned = << 1, 2 >>
    /\ Len(case_details) = 1
    /\ CaseFinishLines = 1

\* C12 as stated: the build script is invoked at most once, finishes before
\* the first case is started, and is invoked only when the manifest
\* configures a build_script.
C12_Original ==
    /\ build_runs <= 1
    /\ pc = "Building" => CaseStartLines = 0 /\ spawned = <<>>
    /\ build_runs > 0 => manifest.build_script

\* C12 amended: the build script is invoked at most once, its process has
\* ended before the first case is started, and it is invoked only when the
\* resolved script (the manifest's build_script, or the stub when the
\* manifest sets none) exists.
C12_BuildOnceBeforeCases ==
    /\ build_runs <= 1
    /\ build_runs > 0 => build_present
    /\ pc = "Building" => CaseStartLines = 0 /\ spawned = <<>> /\ idx = 1
    /\ Len(build_exits) <= build_runs
    /\ (build_runs > 0 /\ CaseStartLines > 0) => Len(build_exits) = 1
    /\ \A i \in DOMAIN run_log :
          run_log[i].kind = "case_starting" =>
              \E j \in 1..(i - 1) :
                  run_log[j].kind \in {"build_output", "build_skipped"}

C12_Witness ==
    /\ build_runs = 1
    /\ ~manifest.build_script
    /\ pc = "Running"
    /\ CaseStartLines = 1
    /\ run_log[3].kind = "build_output"

\* C13: whatever status the build process ends with, the step that takes
\* its output returns success and enters the case loop at the first case
\* with untouched counters, no error and no result.
C13_BuildStatusNotInspected ==
    [][ (pc = "Building" /\ pc' # "Building") =>
            /\ Len(build_exits') = 1
            /\ pc' = "Starting"
            /\ idx' = 1
            /\ result' = "pending"
            /\ fatal' = ""
            /\ passed' = 0 /\ failed' = 0 /\ soft_failed' = 0
            /\ case_details' = <<>> ]_vars

C13_Witness ==
    /\ pc = "Done"
    /\ result = "Ok"
    /\ build_exits = << [signaled |-> FALSE, code |-> 1] >>
    /\ passed = 2

\* C14: when the resolved build script does not exist, the build step
\* spawns nothing, appends the skip notice to the run log and goes on to the
\* case loop; it is never a fatal error.
C14_AbsentBuildScriptSkipped ==
    [][ (pc = "BuildStep" /\ ~build_present) =>
            /\ pc' = "Starting"
            /\ build_runs' = 0
            /\ result' = "pending"
            /\ fatal' = ""
            /\ run_log' = Append(run_log,
                   Line("build_skipped", build_script(manifest), None)) ]_vars

C14_Witness ==
    /\ ~build_present
    /\ ~manifest.build_script
    /\ build_runs = 0
    /\ pc = "Running"
    /\ run_log[2] = Line("build_skipped", << "scripts/build_stub.sh" >>, None)

\* C15: when run_suite reports the failure of a completed run, the error
\* marker, the start and finish line of every case, every case log and
\* last_run.json have been written.
C15_FailureReportedAfterSummary ==
    (result = "Err" /\ fatal = "") =>
        /\ pc = "Done"
        /\ failed > 0
        /\ error_log_path \in created
        /\ error_marker = failed
        /\ summary_writes = 1
        /\ summary_path \in created
        /\ last_run = RunSummary
        /\ last_run.error_log
        /\ CaseStartLines = N
        /\ CaseFinishLines = N
        /\ \A i \in 1..N :
              case_log_path(sanitize_case_name(manifest.cases[i].name)) \in created

C15_Witness ==
    /\ pc = "Done"
    /\ result = "Err"
    /\ N = 2
    /\ failed = 1
    /\ passed = 1

\* C16: last_run.json is written at most once per invocation, only after
\* the last case has finished, exactly once by the time the run is done, and
\* the write leaves nothing of an earlier document.
C16_SummaryWrittenOnceAtEnd ==
    /\ summary_writes <= 1
    /\ summary_writes = 1 =>
          /\ pc \in {"Report", "Done"}
          /\ Len(case_details) = N
          /\ Len(child_exits) = N
          /\ last_run = RunSummary
    /\ summary_writes = 0 =>
          /\ pc \notin {"Report", "Done"}
          /\ last_run \in {NoSummary, PriorSummary, SameSecondSummary}
          /\ summary_path \notin created

C16_Witness ==
    /\ summary_writes = 1
    /\ logs_root \notin created
    /\ run_dir \in created
    /\ last_run.total = 2
    /\ last_run # PriorSummary

C18_ExitCodeRecorded ==
    \A i \in DOMAIN case_details :
        LET d  == case_details[i]
            st == child_exits[i]
        IN  /\ ~st.signaled => d.exit_code.some /\ d.exit_code.val = st.code
            /\ st.signaled <=> ~d.exit_code.some
            /\ st.signaled =>
                  d.status = IF d.allow_failure THEN "soft_failed" ELSE "failed"
            /\ d.status = "passed" <=> (d.exit_code.some /\ d.exit_code.val = 0)

C18_Witness ==
    /\ Len(case_details) = 2
    /\ child_exits[1].signaled
    /\ case_details[1].status = "failed"
    /\ case_details[1].exit_code = None
    /\ case_details[2].exit_code = Some(1)

\* The number a string of decimal digits denotes.
RECURSIVE DecimalValue(_)
DecimalValue(digits) ==
    IF digits = <<>> THEN 0
    ELSE 10 * DecimalValue(SubSeq(digits, 1, Len(digits) - 1))
         + (CHOOSE d \in 0..9 : AsciiDigit[d + 1] = digits[Len(digits)])

\* The timeout the manifest asks for: the case's timeout_secs when present,
\* else the manifest's default_timeout_secs, which is 600 when omitted.
RequestedTimeout ==
    IF case_timeout_secs.some THEN case_timeout_secs.val
    ELSE IF toml_default_timeout.some THEN toml_default_timeout.val
    ELSE 600

\* C19: the timeout budget written in the case log's header line and the
\* one exported as STARRY_CASE_TIMEOUT_SECS both denote the case's
\* timeout_secs when present, else the manifest's default_timeout_secs,
\* else 600.
C19_TimeoutResolution ==
    /\ tpc \in {"header", "exported"} =>
          /\ Len(timeout_header) >= 3
          /\ Head(timeout_header) = "[case] timeout budget: "
          /\ timeout_header[Len(timeout_header)] = "s"
          /\ DecimalValue(SubSeq(timeout_header, 2, Len(timeout_header) - 1))
                = RequestedTimeout
    /\ tpc = "exported" =>
          /\ DecimalValue(env_timeout) = RequestedTimeout
          /\ env_timeout = SubSeq(timeout_header, 2, Len(timeout_header) - 1)
          /\ env_timeout # <<>>
          /\ Len(env_timeout) > 1 => Head(env_timeout) # "0"

C19_Witness ==
    /\ tpc = "exported"
    /\ ~toml_default_timeout.some
    /\ ~case_timeout_secs.some
    /\ env_timeout = << "6", "0", "0" >>
    /\ timeout_header = << "[case] timeout budget: ", "6", "0", "0", "s" >>

\* C20: the only step out of a running case is the exit of its child; as
\* long as the child has not exited, no later case is started and neither
\* the error marker nor last_run.json is written.
C20_NoTimeoutEnforcement ==
    [][ pc = "Running" =>
            /\ pc' # "Running" =>
                  /\ Len(child_exits') = Len(child_exits) + 1
                  /\ Len(case_details') = Len(case_details) + 1
            /\ pc' = "Running" =>
                  /\ idx' = idx
                  /\ CaseStartLines' = idx
                  /\ spawned' = spawned
                  /\ summary_writes' = 0
                  /\ error_log_path \notin created' ]_vars

C20_Witness ==
    /\ pc = "Running"
    /\ idx = 1
    /\ N = 2
    /\ CaseStartLines = 1
    /\ summary_writes = 0
    /\ error_log_path \notin created

\* The slug the specification describes, character by character.
SlugChar(c) ==
    IF \E j \in DOMAIN AsciiLower : AsciiLower[j] = c THEN c
    ELSE IF \E j \in DOMAIN AsciiUpper : AsciiUpper[j] = c
         THEN AsciiLower[CHOOSE j \in DOMAIN AsciiUpper : AsciiUpper[j] = c]
    ELSE IF \E j \in DOMAIN AsciiDigit : AsciiDigit[j] = c THEN c
    ELSE "-"

\* The positions of a name whose character is kept (not turned into '-').
KeptPositions(name) == { i \in DOMAIN name : SlugChar(name[i]) # "-" }

SetMin(S) == CHOOSE x \in S : \A y \in S : x <= y

SetMax(S) == CHOOSE x \in S : \A y \in S : y <= x

\* The reference slug: empty when no character is kept, else the mapped
\* characters from the first kept position to the last.
ReferenceSlug(name) ==
    IF KeptPositions(name) = {} THEN <<>>
    ELSE LET first == SetMin(KeptPositions(name))
             last  == SetMax(KeptPositions(name))
         IN  [ i \in 1..(last - first + 1) |-> SlugChar(name[first + i - 1]) ]

SlugCharacters == Range(AsciiLower) \cup Range(AsciiDigit) \cup {"-"}

\* C23: sanitize_case_name returns the reference slug of every name: ASCII
\* letters lowercased, ASCII digits kept, every other character '-', leading
\* and trailing '-' removed; the result is made of [a-z0-9-] only and neither
\* starts nor ends with '-'.
C23_SanitizeIsReferenceSlug ==
    spc = "slug" =>
        /\ slug_out = ReferenceSlug(name_in)
        /\ \A i \in DOMAIN slug_out : slug_out[i] \in SlugCharacters
        /\ slug_out # <<>> =>
              /\ slug_out[1] # "-"
              /\ slug_out[Len(slug_out)] # "-"

C23_Witness ==
    /\ spc = "slug"
    /\ name_in = << "-", "B", "U+00E9" >>
    /\ slug_out = << "b" >>

\* The nine STARRY_* variables of the child's environment.
HarnessVariables ==
    { "STARRY_WORKSPACE_ROOT", "STARRY_RUN_ID", "STARRY_RUN_DIR",
      "STARRY_CASE_NAME", "STARRY_CASE_SLUG", "STARRY_CASE_LOG_PATH",
      "STARRY_CASE_LOG_DIR", "STARRY_CASE_ARTIFACT_DIR",
      "STARRY_CASE_TIMEOUT_SECS" }

\* C21: the i-th child spawned is the child of the i-th case and receives
\* exactly the nine harness variables, with RUN_DIR = <workspace
\* root>/logs/<suite dir>/<RUN_ID>, CASE_LOG_PATH = RUN_DIR/cases/<slug>.log,
\* CASE_LOG_DIR its parent, CASE_ARTIFACT_DIR = RUN_DIR/artifacts/<slug>, the
\* case's name and slug, and the resolved timeout in decimal; RUN_ID, RUN_DIR
\* and WORKSPACE_ROOT are the same for all children of the run.
C21_ChildEnvironment ==
    /\ Len(io_envs) <= Len(io_manifest.cases)
    /\ \A i \in DOMAIN io_envs :
          LET e == io_envs[i]
              c == io_manifest.cases[i]
          IN  /\ DOMAIN e = HarnessVariables
              /\ Cardinality(DOMAIN e) = 9
              /\ e.STARRY_RUN_DIR = e.STARRY_WORKSPACE_ROOT
                    \o << << "logs" >>, dir_name(io_suite), << e.STARRY_RUN_ID >> >>
              /\ e.STARRY_CASE_LOG_PATH = e.STARRY_RUN_DIR
                    \o << << "cases" >>, e.STARRY_CASE_SLUG \o << ".log" >> >>
              /\ e.STARRY_CASE_LOG_DIR = e.STARRY_RUN_DIR \o << << "cases" >> >>
              /\ e.STARRY_CASE_LOG_DIR \o << e.STARRY_CASE_LOG_PATH[6] >>
                    = e.STARRY_CASE_LOG_PATH
              /\ e.STARRY_CASE_ARTIFACT_DIR = e.STARRY_RUN_DIR
                    \o << << "artifacts" >>, e.STARRY_CASE_SLUG >>
              /\ e.STARRY_CASE_NAME = c.name
              /\ e.STARRY_CASE_SLUG = ReferenceSlug(c.name)
              /\ DecimalValue(e.STARRY_CASE_TIMEOUT_SECS) =
                    IF c.timeout_secs.some THEN c.timeout_secs.val
                    ELSE io_manifest.default_timeout_secs
              /\ \A j \in DOMAIN io_envs :
                    /\ io_envs[j].STARRY_RUN_ID = e.STARRY_RUN_ID
                    /\ io_envs[j].STARRY_RUN_DIR = e.STARRY_RUN_DIR
                    /\ io_envs[j].STARRY_WORKSPACE_ROOT = e.STARRY_WORKSPACE_ROOT

C21_Witness ==
    /\ Len(io_envs) = 2
    /\ io_suite = "stress-test"
    /\ io_envs[1].STARRY_CASE_SLUG = << "b", "a", "d" >>
    /\ io_envs[1].STARRY_CASE_TIMEOUT_SECS = << "0" >>
    /\ io_envs[2].STARRY_CASE_NAME = << "O", "k", "!" >>
    /\ io_envs[2].STARRY_CASE_SLUG = << "o", "k" >>
    /\ io_envs[2].STARRY_CASE_TIMEOUT_SECS = << "3", "0" >>
    /\ io_envs[2].STARRY_RUN_DIR =
          << << "/workspace" >>, << "logs" >>, << "stress" >>, << "T1" >> >>

\* The log file of the i-th case, as the claims name it.
LogPathOfCase(i) ==
    << << "/workspace" >>, << "logs" >>, dir_name(io_suite), << timestamp >>,
       << "cases" >>,
       ReferenceSlug(io_manifest.cases[i].name) \o << ".log" >> >>

ArtifactDirOfCase(i) ==
    << << "/workspace" >>, << "logs" >>, dir_name(io_suite), << timestamp >>,
       << "artifacts" >>, ReferenceSlug(io_manifest.cases[i].name) >>

\* The cases whose child has ended and whose log no later case has opened.
SettledCases ==
    { i \in DOMAIN io_outputs :
        \A j \in DOMAIN io_touched :
            j > i => LogPathOfCase(i) \notin io_touched[j] }

\* The positions of the line ends in a file's content, in order.
LineEnds(content) ==
    SelectSeq([k \in 1..Len(content) |-> k], LAMBDA k : content[k] = "\n")

\* C22 as stated: a finished case's log is two header lines, the command
\* line and the timeout budget, then the child's stdout, then its stderr.
C22_Original ==
    \A i \in SettledCases :
        LET content == io_files[LogPathOfCase(i)]
            ends    == LineEnds(content)
        IN  /\ Len(ends) = 2
            /\ content[1] = "[case] command: "
            /\ content[ends[1] + 1] = "[case] timeout budget: "
            /\ SubSeq(content, ends[2] + 1, Len(content))
                  = io_outputs[i].stdout \o io_outputs[i].stderr

\* C22 amended: a finished case's log is three header lines (the case's
\* name, the command line, the timeout budget), then the child's stdout,
\* then its stderr, and nothing else: nothing the file held before the case
\* was run is left.
C22_CaseLogContent ==
    \A i \in SettledCases :
        LET content == io_files[LogPathOfCase(i)]
            ends    == LineEnds(content)
            case    == io_manifest.cases[i]
        IN  /\ Len(ends) = 3
            /\ SubSeq(content, 1, ends[1] - 1) = << "[case] " >> \o case.name
            /\ content[ends[1] + 1] = "[case] command: "
            /\ content[ends[1] + 2] = "/workspace"
            /\ content[ends[1] + 4] = case.path[1]
            /\ content[ends[2] + 1] = "[case] timeout budget: "
            /\ content[ends[3] - 1] = "s"
            /\ DecimalValue(SubSeq(content, ends[2] + 2, ends[3] - 2))
                  = IF case.timeout_secs.some THEN case.timeout_secs.val
                    ELSE io_manifest.default_timeout_secs
            /\ SubSeq(content, ends[3] + 1, Len(content))
                  = io_outputs[i].stdout \o io_outputs[i].stderr
            /\ \A k \in DOMAIN content : content[k] \notin Range(StaleLog) \ {"\n"}

C22_Witness ==
    /\ io_pc = "Done"
    /\ io_manifest.cases = << [ name |-> << "o", "k" >>, path |-> << "tests/ok.sh" >>,
                                args |-> <<>>, timeout_secs |-> None,
                                allow_failure |-> FALSE ] >>
    /\ io_outputs[1].stdout # <<>>
    /\ io_outputs[1].stderr # <<>>
    /\ io_files[LogPathOfCase(1)] =
          << "[case] ", "o", "k", "\n",
             "[case] command: ", "/workspace", "/", "tests/ok.sh", " ", "\n",
             "[case] timeout budget: ", "6", "0", "0", "s", "\n",
             "stdout of child ", "1", "stderr of child ", "1" >>

\* Pairs of cases with different names and the same slug.
CollidingCases ==
    { p \in (DOMAIN io_manifest.cases) \X (DOMAIN io_manifest.cases) :
        /\ p[1] < p[2]
        /\ io_manifest.cases[p[1]].name # io_manifest.cases[p[2]].name
        /\ ReferenceSlug(io_manifest.cases[p[1]].name)
              = ReferenceSlug(io_manifest.cases[p[2]].name) }

\* C24: a case whose slug an earlier, differently named case has is begun
\* and run like any other; once both have ended, both CaseDetail entries carry
\* the same log_path, both children were given the same artifact directory,
\* and the log (until a later case opens it) holds the later case's name
\* line and output and nothing of the earlier case.
C24_SlugCollisionOverwrites ==
    /\ [][ io_pc = "Begin" =>
              /\ io_pc' = "RunCase"
              /\ Len(io_touched') = io_idx ]_vars
    /\ [](\A p \in CollidingCases :
            p[2] \in DOMAIN io_outputs =>
              /\ io_details[p[1]].log_path = io_details[p[2]].log_path
              /\ io_details[p[1]].name # io_details[p[2]].name
              /\ io_envs[p[1]].STARRY_CASE_ARTIFACT_DIR
                    = io_envs[p[2]].STARRY_CASE_ARTIFACT_DIR
              /\ ArtifactDirOfCase(p[1]) \in io_dirs
              /\ p[2] \in SettledCases =>
                    LET content == io_files[LogPathOfCase(p[1])]
                        ends    == LineEnds(content)
                    IN  /\ SubSeq(content, 1, ends[1] - 1)
                              = << "[case] " >> \o io_manifest.cases[p[2]].name
                        /\ Len(ends) = 3
                        /\ SubSeq(content, ends[3] + 1, Len(content))
                              = io_outputs[p[2]].stdout \o io_outputs[p[2]].stderr)

C24_Witness ==
    /\ io_pc = "Done"
    /\ CollidingCases = { << 1, 2 >> }
    /\ io_outputs[1].stdout # <<>>
    /\ io_outputs[2].stdout = <<>>
    /\ io_outputs[2].stderr # <<>>
    /\ Cardinality(DOMAIN io_files) = 1
    /\ Cardinality(io_dirs) = 1

\* C25: no path that the harness creates or writes for one case is a path it
\* creates or writes for another case.
C25_CasesTouchDisjointPaths ==
    \A i, j \in DOMAIN io_touched :
        i # j => io_touched[i] \cap io_touched[j] = {}

\* The paths below the run directory.
UnderRunDir(p) == p.kind \notin {"logs_root", "last_run.json"}

\* The run directory tree that lines 165-175 create.
EagerTree == {run_dir, case_logs_root, artifacts_root, run_log_path}

\* The states of an invocation in which the run directory tree is set up.
TreeSetUp ==
    \/ pc \in {"BuildStep", "Building", "Starting", "RunCase", "Running",
               "Summarizing", "WriteSummary", "Report", "Done"}
    \/ pc = "Aborted" /\ fatal \notin ManifestErrors \cup {"filesystem failure"}

\* C26 as stated: once the run directory tree is set up, the harness
\* creates, truncates and deletes nothing below the run directory.
C26_Original ==
    [][ TreeSetUp =>
            /\ { p \in fs' : UnderRunDir(p) } = { p \in fs : UnderRunDir(p) }
            /\ { p \in created' : UnderRunDir(p) }
                  = { p \in created : UnderRunDir(p) } ]_vars

\* C26 amended: the run directory, cases/, artifacts/ and suite.log exist
\* before the build step and before any case starts and are never removed or
\* created again; suite.log is only appended to; afterwards the harness
\* creates below the run directory only the artifact directory and the log
\* file of the case the loop is at and, after the loop, error.log, and it
\* removes nothing but a stale error.log.
C26_EagerTreeThenPerCasePaths ==
    [][ /\ (pc = "Setup" /\ pc' = "BuildStep") =>
              /\ EagerTree \subseteq fs'
              /\ EagerTree \ fs \subseteq created'
              /\ run_log_path \in created'
        /\ TreeSetUp =>
              /\ EagerTree \subseteq fs
              /\ EagerTree \subseteq fs'
              /\ Len(run_log') >= Len(run_log)
              /\ SubSeq(run_log', 1, Len(run_log)) = run_log
              /\ (fs' \ fs) \cup (created' \ created) \subseteq
                    IF pc \in {"Starting", "RunCase"}
                    THEN { case_artifact_dir(sanitize_case_name(manifest.cases[idx].name)),
                           case_log_path(sanitize_case_name(manifest.cases[idx].name)) }
                    ELSE IF pc = "Summarizing" THEN {error_log_path}
                    ELSE IF pc = "WriteSummary" THEN {summary_path}
                    ELSE {}
              /\ fs \ fs' \subseteq
                    IF pc = "Summarizing" /\ failed = 0 THEN {error_log_path}
                    ELSE {} ]_vars

C26_Witness ==
    /\ pc = "Done"
    /\ N = 2
    /\ EagerTree \subseteq created
    /\ case_log_path(<<"o","k">>) \in created
    /\ case_artifact_dir(<<"b","a","d">>) \in created
    /\ error_log_path \in created

\* The number of entries of a case list that satisfy a condition.
CountCases(cs, Cond(_)) == Cardinality({ i \in DOMAIN cs : Cond(cs[i]) })

\* C27: in the summary an invocation writes, passed is the number of
\* entries with exit_code 0, soft_failed the number with a non-zero or absent
\* exit_code and allow_failure set, failed the number with a non-zero or
\* absent exit_code and allow_failure unset, and each entry's status string
\* is the one that replay gives.
C27_SummaryReplaysItsCases ==
    summary_writes > 0 =>
        LET cs == last_run.cases
            Ok(d)   == d.exit_code.some /\ d.exit_code.val = 0
            Soft(d) == ~(d.exit_code.some /\ d.exit_code.val = 0) /\ d.allow_failure
            Hard(d) == ~(d.exit_code.some /\ d.exit_code.val = 0) /\ ~d.allow_failure
        IN  /\ last_run.passed = CountCases(cs, Ok)
            /\ last_run.soft_failed = CountCases(cs, Soft)
            /\ last_run.failed = CountCases(cs, Hard)
            /\ \A i \in DOMAIN cs :
                  /\ Ok(cs[i]) <=> cs[i].status = "passed"
                  /\ Soft(cs[i]) <=> cs[i].status = "soft_failed"
                  /\ Hard(cs[i]) <=> cs[i].status = "failed"

C27_Witness ==
    /\ summary_writes > 0
    /\ Len(last_run.cases) = 2
    /\ last_run.cases[1].exit_code = None
    /\ last_run.cases[1].status = "soft_failed"
    /\ last_run.cases[2].exit_code = Some(1)
    /\ last_run.cases[2].status = "failed"
    /\ last_run.failed = 1 /\ last_run.soft_failed = 1 /\ last_run.passed = 0

\* The phase of the whole-run state machine a position of run_suite belongs
\* to.  Loading covers everything before the build step.
PhaseOf(p) ==
    CASE p \in {"Loading", "Setup"}                       -> "Loading"
      [] p \in {"BuildStep", "Building"}                  -> "BuildStep"
      [] p \in {"Starting", "RunCase"}                    -> "Starting"
      [] p = "Running"                                    -> "Running"
      [] p \in {"Summarizing", "WriteSummary", "Report"}  -> "Summarizing"
      [] p = "Done"                                       -> "Done"
      [] p = "Aborted"                                    -> "Aborted"

\* The transitions between phases that the specification's state machine
\* has; a finished case (Passed, Failed or SoftFailed) leads to the next
\* case's Starting or to Summarizing.
MachineTransitions ==
    { << "Loading", "Aborted" >>, << "Loading", "BuildStep" >>,
      << "BuildStep", "Starting" >>, << "Starting", "Running" >>,
      << "Running", "Starting" >>, << "Running", "Summarizing" >>,
      << "Summarizing", "Done" >> }

\* What the phases do as they are left or entered.
PhaseEffects ==
    /\ (PhaseOf(pc) = "Starting" /\ pc' = "Running") =>
          /\ CaseStartLines' = idx
          /\ spawned' = Append(spawned, idx)
    /\ pc = "Running" =>
          /\ PhaseOf(pc') \in {"Starting", "Summarizing"}
          /\ PhaseOf(pc') = "Summarizing" <=> idx = N
          /\ CaseFinishLines' = CaseFinishLines + 1
          /\ passed' + failed' + soft_failed' = passed + failed + soft_failed + 1
          /\ Len(case_details') = Len(case_details) + 1
          /\ case_details'[idx].status \in CaseStatus
          /\ idx' = idx + 1
    /\ pc # "Running" => idx' = idx /\ case_details' = case_details
    /\ pc' = "Done" => (result' = "Ok" <=> failed = 0)
    /\ pc \notin {"Done", "Aborted"}

C30_StatusCategoriesExclusive ==
    wpc = "decoded" =>
        /\ Cardinality({ m \in {"wifexited", "wifsignaled", "wifstopped",
                                "wifcontinued"} : decoded[m] }) <= 1
        /\ decoded.wifexited =>
              ~decoded.wifsignaled /\ ~decoded.wifstopped /\ ~decoded.wifcontinued
        /\ decoded.wifsignaled => ~decoded.wifexited /\ ~decoded.wifstopped
        /\ decoded.wifstopped => ~decoded.wifexited /\ ~decoded.wifsignaled

C30_Witness ==
    /\ wpc = "decoded"
    /\ wstatus = 4991
    /\ decoded.wifstopped
    /\ decoded.wstopsig = 19
    /\ ~decoded.wifexited /\ ~decoded.wifsignaled /\ ~decoded.wifcontinued

\* The invocations that have a cell in the file at path.
WritersOf(path) ==
    IF path \in DOMAIN shared_files
    THEN { shared_files[path][i].by : i \in DOMAIN shared_files[path] } \ {0}
    ELSE {}

\* Both invocations computed the timestamp of the same second.
SameSecond ==
    /\ \A p \in Invocations : inv_pc[p] # "Setup"
    /\ inv_ts[1] = inv_ts[2]

\* C29: two invocations whose timestamps coincide work on the same
\* suite.log, case log and error.log paths; no invocation ever waits for
\* the other (each unfinished invocation can always take its next step);
\* creating suite.log empties it, whatever the other invocation wrote;
\* invocations of different seconds never touch each other's files; and
\* last_run.json always holds the summary of the invocation that wrote it
\* last.
C29_SameSecondRunsCollide ==
    /\ [][ \A p \in Invocations :
              inv_pc[p] = "Setup" /\ inv_pc'[p] # "Setup"
                  => shared_files'[inv_run_log(p)'] = <<>> ]_vars
    /\ [] ( SameSecond => /\ inv_run_log(1) = inv_run_log(2)
                          /\ inv_case_log(1) = inv_case_log(2)
                          /\ inv_error_log(1) = inv_error_log(2) )
    /\ [] ( \A p \in Invocations : inv_pc[p] # "Done" => ENABLED two_step(p) )
    /\ [] ( \A path \in DOMAIN shared_files : \A p \in WritersOf(path) :
              inv_ts[p] = path.run )
    /\ [] ( summary_writers # <<>> =>
              LET last == summary_writers[Len(summary_writers)]
              IN  shared_last_run = [ present |-> TRUE, by |-> last,
                                      run |-> inv_ts[last],
                                      failed |-> inv_failed[last] ] )

\* Both invocations of one second have finished: the second one created
\* suite.log after the first had written its header, which is gone; both
\* wrote the case log; both had a failed case and wrote error.log, which
\* holds the text of one; last_run.json is that of invocation 2, written
\* after invocation 1 wrote its own.
C29_Witness ==
    /\ SameSecond
    /\ \A p \in Invocations : inv_pc[p] = "Done" /\ inv_failed[p] > 0
    /\ inv_log_pos[1] = 4
    /\ Cell(1, "[suite]") \notin
          { shared_files[inv_run_log(1)][i] : i \in DOMAIN shared_files[inv_run_log(1)] }
    /\ WritersOf(inv_run_log(1)) = Invocations
    /\ WritersOf(inv_case_log(1)) = Invocations
    /\ WritersOf(inv_error_log(1)) = {2}
    /\ summary_writers = << 1, 2 >>
    /\ shared_last_run.by = 2

\* The status the kernel encodes for an exit with code c.
ExitedStatus(c) == c * 256

\* The status of a termination by signal s, with or without a core dump.
SignaledStatus(s, core) == s + (IF core THEN 128 ELSE 0)

\* The status of a stop by signal g.
StoppedStatus(g) == g * 256 + 127

\* C31: the macros decode what the encoding carries: the status of an exit
\* with code c in 0..255 is wifexited with wexitstatus c; the status of a
\* termination by signal s in 1..126, with or without the core-dump bit, is
\* wifsignaled with wtermsig s (and wcoredump tells the bit); the status of
\* a stop by signal g in 1..255 is wifstopped with wstopsig g; wifcontinued
\* holds exactly for the status 0xffff.
C31_MacrosDecodeTheEncoding ==
    wpc = "decoded" =>
        LET hi == wstatus \div 256
            lo == wstatus % 128
            core == (wstatus % 256) >= 128
        IN  /\ (hi \in 0..255 /\ wstatus = ExitedStatus(hi)) =>
                  decoded.wifexited /\ decoded.wexitstatus = hi
            /\ (lo \in 1..126 /\ wstatus = SignaledStatus(lo, core)) =>
                  /\ decoded.wifsignaled
                  /\ decoded.wtermsig = lo
                  /\ decoded.wcoredump = core
            /\ (hi \in 1..255 /\ wstatus = StoppedStatus(hi)) =>
                  decoded.wifstopped /\ decoded.wstopsig = hi
            /\ decoded.wifcontinued <=> wstatus = 65535

\* SIGKILL with a core dump, decoded.
C31_Witness ==
    /\ wpc = "decoded"
    /\ wstatus = SignaledStatus(9, TRUE)
    /\ decoded.wifsignaled
    /\ decoded.wtermsig = 9
    /\ decoded.wcoredump

\* C32: the template program exits with code 1, after printing one FAIL
\* line to stderr, iff run() returned Err; when run() returned Ok it prints
\* one PASS line to stdout and exits with code 0.  Classified by run_case,
\* the case is Passed iff run() returned Ok; otherwise it is SoftFailed
\* with allow_failure and Failed without, and exit_code 1 is recorded.
C32_TemplateExitProtocol ==
    /\ mpc \in { "exited", "classified" } =>
          /\ child_status = [ signaled |-> FALSE, code |-> 1 ] <=> ~run_result.ok
          /\ ~run_result.ok =>
                /\ child_stderr =
                      << << "FAIL: ", case_display, " -> ", run_result.err >> >>
                /\ child_stdout = <<>>
          /\ run_result.ok =>
                /\ child_stdout = << << "PASS: ", case_display >> >>
                /\ child_stderr = <<>>
                /\ child_status = [ signaled |-> FALSE, code |-> 0 ]
    /\ mpc = "classified" =>
          /\ case_outcome.status = "passed" <=> run_result.ok
          /\ run_result.ok => case_outcome.exit_code = Some(0)
          /\ ~run_result.ok =>
                /\ case_outcome.status =
                      IF case_allow_failure THEN "soft_failed" ELSE "failed"
                /\ case_outcome.exit_code = Some(1)

\* A tolerated case whose run() failed with a reason that reads like a PASS
\* line: classified SoftFailed with exit code 1.
C32_Witness ==
    /\ mpc = "classified"
    /\ run_result = run_Err("PASS: process-spawn")
    /\ case_allow_failure
    /\ case_outcome = [ status |-> "soft_failed", exit_code |-> Some(1) ]
    /\ child_stdout = <<>>

\* The call made by the step that has just been taken.
LastCall == trace'[Len(trace')]

\* C33: read_bytes right after write_bytes(p, a) returns a, whatever the
\* file held; read_bytes after write_bytes(p, a) and append_bytes(p, b)
\* returns a followed by b; append_bytes on a missing file succeeds and
\* creates it with the bytes; cleanup_file returns Ok on a missing file
\* too, so two calls in a row both succeed, and the file is absent after
\* each.
C33_FileHelpersCompose ==
    /\ [] ( \A i \in 1..(Len(trace) - 1) :
              ( /\ trace[i].op = "write_bytes"
                /\ trace[i+1].op = "read_bytes"
                /\ trace[i+1].path = trace[i].path )
              => trace[i+1].ok /\ trace[i+1].value = trace[i].data )
    /\ [] ( \A i \in 1..(Len(trace) - 2) :
              ( /\ trace[i].op = "write_bytes"
                /\ trace[i+1].op = "append_bytes"
                /\ trace[i+2].op = "read_bytes"
                /\ trace[i+1].path = trace[i].path
                /\ trace[i+2].path = trace[i].path )
              => /\ trace[i+1].ok /\ trace[i+2].ok
                 /\ trace[i+2].value = trace[i].data \o trace[i+1].data )
    /\ [] ( \A i \in 1..(Len(trace) - 1) :
              ( /\ trace[i].op = "cleanup_file"
                /\ trace[i+1].op = "cleanup_file"
                /\ trace[i+1].path = trace[i].path )
              => trace[i].ok /\ trace[i+1].ok )
    /\ [][ /\ ( LastCall.op = "append_bytes" /\ LastCall.path \notin DOMAIN hfs )
              => /\ LastCall.ok
                 /\ LastCall.path \in DOMAIN hfs'
                 /\ hfs'[LastCall.path] = LastCall.data
           /\ LastCall.op = "cleanup_file"
              => LastCall.ok /\ LastCall.path \notin DOMAIN hfs' ]_vars

\* A file with earlier content was overwritten, appended to and read back.
C33_Witness ==
    /\ Len(trace) = 3
    /\ trace[1] = Call("write_bytes", "/tmp/case-a", << 0, 255 >>, TRUE, <<>>)
    /\ trace[2] = Call("append_bytes", "/tmp/case-a", << 255 >>, TRUE, <<>>)
    /\ trace[3] = Call("read_bytes", "/tmp/case-a", <<>>, TRUE, << 0, 255, 255 >>)
    /\ hfs["/tmp/case-a"] = << 0, 255, 255 >>

\* The run aborted because the executable of case idx is missing.
AbortedOnMissingScript == pc = "Aborted" /\ fatal = "missing script"

\* The slug of the i-th manifest case.
SlugOf(i) == sanitize_case_name(manifest.cases[i].name)

\* C34: an abort on the missing executable of the k-th case leaves the run
\* directory, suite.log, cases/ and artifacts/ in place, the k-th case's
\* artifact directory created and its start line the last line of the run
\* log (k start lines, k-1 finish lines); the aborting step itself creates
\* no file, so the case log of the k-th case exists only if an earlier case
\* of the same slug made it; and no error marker is written by the run,
\* whatever `failed` is.
C34_MissingScriptAbortSideEffects ==
    /\ [] ( AbortedOnMissingScript =>
              /\ { run_dir, run_log_path, case_logs_root, artifacts_root,
                   case_artifact_dir(SlugOf(idx)) } \subseteq fs
              /\ run_log[Len(run_log)] =
                    Line("case_starting", manifest.cases[idx].name, None)
              /\ CaseStartLines = idx
              /\ CaseFinishLines = idx - 1
              /\ Len(case_details) = idx - 1
              /\ case_log_path(SlugOf(idx)) \in created =>
                    \E j \in 1..(idx - 1) : SlugOf(j) = SlugOf(idx)
              /\ error_log_path \notin created
              /\ summary_writes = 0 )
    /\ [][ (pc = "RunCase" /\ ~script_present[idx]) =>
              /\ AbortedOnMissingScript'
              /\ UNCHANGED << fs, created, run_log, error_marker, last_run >>
         ]_vars

\* The second case's executable is missing after the first case failed.
C34_Witness ==
    /\ AbortedOnMissingScript
    /\ idx = 2
    /\ failed = 1
    /\ case_log_path(SlugOf(1)) \in created
    /\ case_log_path(SlugOf(2)) \notin fs
    /\ case_artifact_dir(SlugOf(2)) \in created
    /\ error_log_path \notin fs

\* C35: when the child of case k cannot be spawned the run is aborted, with
\* or without allow_failure: no CaseDetail is recorded for the case, no
\* child ran for it, no further case is begun and nothing further happens,
\* no summary is written, and the case's log file holds exactly its header
\* lines; a step of run_case that opens the log and starts no child always
\* ends in this way.
C35_SpawnFailureAborts ==
    /\ [] ( io_pc = "Aborted" =>
              /\ Len(io_details) = io_idx - 1
              /\ Len(io_outputs) = io_idx - 1
              /\ Len(io_envs) = io_idx - 1
              /\ Len(io_touched) = io_idx
              /\ ~io_last_run.some
              /\ io_case_log_path \in DOMAIN io_files
              /\ io_files[io_case_log_path] =
                    write_headers(<<>>, io_case,
                        unwrap_or(io_case.timeout_secs,
                                  io_manifest.default_timeout_secs)) )
    /\ [][ io_pc # "Aborted" ]_vars
    /\ [][ (io_pc = "RunCase" /\ io_envs' = io_envs) =>
              io_pc' = "Aborted" /\ io_details' = io_details ]_vars

\* The second case, a tolerated one, could not be spawned after the first
\* had run: the run is aborted with one case recorded.
C35_Witness ==
    /\ io_pc = "Aborted"
    /\ io_idx = 2
    /\ io_case.allow_failure
    /\ Len(io_details) = 1
    /\ Len(LineEnds(io_files[io_case_log_path])) = 3

\* The run aborted because the build script could not be started.
AbortedOnBuildSpawn == pc = "Aborted" /\ fatal = "failed to run build script"

\* The run is in or past the case loop.
ReachedCaseLoop ==
    pc \in { "Starting", "RunCase", "Running", "Summarizing", "WriteSummary",
             "Report", "Done" }
       \/ (pc = "Aborted" /\ fatal \in { "missing script", "failed to run case" })

\* C36: a build script that exists and cannot be spawned aborts the run:
\* the run directory tree and suite.log exist, the run log holds the suite
\* header and the '[build] executing' line and nothing else, no build or
\* case process was started, no case was begun, no error marker and no
\* summary was written.  A run is in or past the case loop only if the
\* script does not exist (and the skip was logged) or the build process
\* was spawned and has ended.
C36_BuildSpawnFailureAborts ==
    /\ [] ( AbortedOnBuildSpawn =>
              /\ build_present
              /\ Range(SetupDirs) \cup { run_log_path } \subseteq fs
              /\ run_log = << Line("suite", <<>>, None),
                              Line("build_executing", build_script(manifest), None) >>
              /\ build_runs = 0
              /\ spawned = <<>>
              /\ case_details = <<>>
              /\ idx = 1
              /\ error_log_path \notin created
              /\ summary_writes = 0 )
    /\ [] ( ReachedCaseLoop =>
              \/ /\ ~build_present
                 /\ build_runs = 0
                 /\ run_log[2] = Line("build_skipped", build_script(manifest), None)
              \/ /\ build_present
                 /\ build_runs = 1
                 /\ Len(build_exits) = 1 )
    /\ [][ (pc = "BuildStep" /\ build_present /\ build_runs' = build_runs)
              => AbortedOnBuildSpawn' ]_vars

\* The stub build script exists and cannot be started; a summary of an
\* earlier run is still in place.
C36_Witness ==
    /\ AbortedOnBuildSpawn
    /\ ~manifest.build_script
    /\ Len(run_log) = 2
    /\ summary_path \in fs
    /\ summary_path \notin created
    /\ artifacts_root \in created

\* C37: under LiveSpec (the build process and every case child that was
\* spawned exit, and the harness goes on whenever it can) every invocation
\* terminates, in exactly one of Aborted, Done with Ok and Done with Err,
\* and stays there; at no time have more than N case children or more than
\* one build process been spawned, no case has been spawned twice, and a
\* terminated run has no child left running.
C37_TerminatesWithinNSpawns ==
    /\ <>Terminated
    /\ [] ( Terminated =>
              /\ Cardinality({ o \in { "Aborted", "Success", "Failure" } :
                    \/ o = "Aborted" /\ pc = "Aborted"
                    \/ o = "Success" /\ pc = "Done" /\ result = "Ok"
                    \/ o = "Failure" /\ pc = "Done" /\ result = "Err" }) = 1
              /\ Len(child_exits) = Len(spawned)
              /\ Len(build_exits) = build_runs )
    /\ [] ( /\ Len(spawned) <= N
            /\ \A i, j \in DOMAIN spawned : spawned[i] = spawned[j] => i = j
            /\ build_runs <= 1
            /\ Len(spawned) + build_runs <= N + 1 )
    /\ [][ ~Terminated ]_vars

\* A run that spawned the build and all of its N cases, and ended in
\* failure.
C37_Witness ==
    /\ pc = "Done"
    /\ result = "Err"
    /\ N = MaxCases
    /\ Len(spawned) = N
    /\ build_runs = 1

\* The run directory of a ci-test run, and the two roots below it.
CiRunDir == join(join(join(workspace, << "logs" >>), dir_name("ci-test")),
                 << timestamp >>)

CiCases == join(CiRunDir, << "cases" >>)

CiArtifacts == join(CiRunDir, << "artifacts" >>)

\* C38: sanitizing a slug returns the slug; a slug holds no '/', no '\' and
\* no '.', so for a slug that is not empty the log file and the artifact
\* directory are direct children of cases/ and artifacts/; the slug is
\* empty exactly for the names without an ASCII letter or digit (the empty
\* name among them), and then the artifact directory is the artifacts root
\* and the log file is cases/.log, the same for every such name.
C38_SlugIdempotentAndEmptySlug ==
    spc = "slug" =>
        LET log_path     == join(CiCases, slug_out \o << ".log" >>)
            artifact_dir == join(CiArtifacts, slug_out)
        IN  /\ sanitize_case_name(slug_out) = slug_out
            /\ \A i \in DOMAIN slug_out : slug_out[i] \notin { "/", "\\", "." }
            /\ slug_out = <<>> <=> KeptPositions(name_in) = {}
            /\ slug_out # <<>> =>
                  /\ parent(log_path) = CiCases
                  /\ parent(artifact_dir) = CiArtifacts
                  /\ artifact_dir # CiArtifacts
                  /\ case_artifact_dir(slug_out) # artifacts_root
            /\ slug_out = <<>> =>
                  /\ artifact_dir = CiArtifacts
                  /\ case_artifact_dir(slug_out) = artifacts_root
                  /\ log_path = join(CiCases, << ".log" >>)
                  /\ display(rel_path(log_path, CiRunDir)) = << "cases", "/", ".log" >>

\* A name of punctuation and a non-ASCII letter has the empty slug.
C38_Witness ==
    /\ spc = "slug"
    /\ name_in = << ".", "/", "U+00E9" >>
    /\ slug_out = <<>>

====
